---- MODULE Spec2Model ----
(***************************************************************************)
(* A model of linguatown: the chat endpoint's turn state machine           *)
(* (src/app/api/chat/route.ts, src/lib/prompts.ts), the conversation       *)
(* session of the chat view (src/components/ChatInterface.tsx) and the     *)
(* progress ledger kept in localStorage (src/lib/progress.ts).             *)
(*                                                                         *)
(* Texts are sequences of one-character strings, so that startsWith,       *)
(* replace and trim are computed as JavaScript computes them.              *)
(***************************************************************************)
EXTENDS Integers, Sequences, FiniteSets, TLC

VARIABLES
    call,           \* the last request served by POST /api/chat, with what it computed
    built,          \* the parameters given to buildSystemPrompt and the prompt it built
    evaluated,      \* the last request served by POST /api/evaluate, with what it returned
    messages,       \* ChatInterface: useState<Message[]>
    turnCount,      \* ChatInterface: useState(0)
    isTyping,       \* ChatInterface: useState(false)
    isEnding,       \* ChatInterface: useState(false)
    countdown,      \* ChatInterface: useState<number | null>(null)
    isLoadingOpening, \* ChatInterface: useState(true)
    inputValue,     \* ChatInterface: useState("")
    isSendingRef,   \* ChatInterface: useRef(false)
    view,           \* the state values captured by the closures of the last render
    send,           \* the handleSend invocation in flight, with its position
    opening,        \* position of generateOpeningMessage
    requestsSent,   \* number of fetch("/api/chat") calls issued by the session
    sendsAccepted,  \* number of handleSend invocations that passed the guard
    props,          \* ChatInterface props: difficulty, topic, learningLanguage, buildingSlug
    lastEvaluation, \* what the evaluation branch of the last finished send settled to
    mounted,        \* the building page of this visit is mounted
    conversationState, \* BuildingPage: useState("active")
    endingCountdown, \* ConversationEnding: useState(3), -1 while it is not mounted
    newLevel,       \* BuildingPage: useState<DifficultyLevel | null>(null)
    endingEffectDue, \* the effect of ConversationEnding has to run for the last render
    navigationFired, \* the navigation timer of the chat view fired for this countdown
    log,            \* the calls made when the conversation ended, in order
    storage,        \* localStorage: learning language -> stored UserProgress or NoItem
    learningLanguage, \* localStorage "lingua-town-learning-language"
    lastResult,     \* what the last progress operation was given, computed and returned
    onlyCompleteConversation, \* no other progress operation has been called so far
    advancedCalls,  \* number of calls that returned advanced: true, counted up to a cap
    levelChanges,   \* number of setGlobalLevel calls so far
    topicMarks,     \* number of markTopicComplete calls so far
    home            \* HomeContent: the useState values of the town page

chatVars == <<call, built, evaluated>>
visitVars ==
    <<mounted, conversationState, endingCountdown, newLevel, endingEffectDue,
      navigationFired, log>>
sessionVars ==
    <<messages, turnCount, isTyping, isEnding, countdown, isLoadingOpening,
      inputValue, isSendingRef, view, send, opening, requestsSent, sendsAccepted,
      props, lastEvaluation, visitVars>>
progressVars ==
    <<storage, learningLanguage, lastResult, onlyCompleteConversation,
      advancedCalls, levelChanges, topicMarks>>
homeVars == <<home>>
vars == <<chatVars, sessionVars, progressVars, homeVars>>

-----------------------------------------------------------------------------
(* Bounds of the model.                                                    *)

\* turnCount values the endpoint is asked about: 0 .. MaxTurnCount
MaxTurnCount == 6

\* handleSend invocations accepted in one session
MaxSends == 4

\* the locations of ALL_LOCATIONS that are modelled (the first NumLocations)
NumLocations == 2

\* setGlobalLevel calls in one run
MaxLevelChanges == 1

\* markTopicComplete calls in one run
MaxTopicMarks == 1

\* the topics of each catalog list that are modelled (the first CatalogSize)
CatalogSize == 2

\* calls returning advanced: true are counted up to this number
MaxAdvancesCounted == 3

\* ChatInterface.tsx:346, a correction is cut to this many characters
CORRECTION_LIMIT == 100

-----------------------------------------------------------------------------
(* Texts.                                                                  *)

\* JavaScript undefined / null where a text is expected
Undefined == <<"undefined">>

END_TAG == <<"[", "E", "N", "D", "]">>
CONTINUE_TAG == <<"[", "C", "O", "N", "T", "I", "N", "U", "E", "]">>

\* route.ts:336, the apology substituted for an empty completion
FALLBACK_APOLOGY == <<"I", "'", "m", " ", "s", "o", "r", "r", "y">>

WhiteSpace == {" ", "\t", "\n"}

\* String.prototype.startsWith
StartsWith(s, p) ==
    /\ Len(s) >= Len(p)
    /\ SubSeq(s, 1, Len(p)) = p

\* String.prototype.indexOf, 1-based; 0 when p does not occur in s
RECURSIVE IndexFrom(_, _, _)
IndexFrom(s, p, i) ==
    IF i + Len(p) - 1 > Len(s) THEN 0
    ELSE IF SubSeq(s, i, i + Len(p) - 1) = p THEN i
    ELSE IndexFrom(s, p, i + 1)

\* String.prototype.replace(pattern: string, ""): the first occurrence only
ReplaceFirstWithEmpty(s, p) ==
    LET i == IndexFrom(s, p, 1) IN
    IF i = 0 THEN s
    ELSE SubSeq(s, 1, i - 1) \o SubSeq(s, i + Len(p), Len(s))

RECURSIVE TrimStart(_)
TrimStart(s) ==
    IF s # <<>> /\ Head(s) \in WhiteSpace THEN TrimStart(Tail(s)) ELSE s

RECURSIVE TrimEnd(_)
TrimEnd(s) ==
    IF s # <<>> /\ s[Len(s)] \in WhiteSpace
    THEN TrimEnd(SubSeq(s, 1, Len(s) - 1))
    ELSE s

\* String.prototype.trim
Trim(s) == TrimEnd(TrimStart(s))

-----------------------------------------------------------------------------
(* The evaluate endpoint: src/app/api/evaluate/route.ts (src/unnamed/      *)
(* part_001).                                                              *)

LOWER_CASE ==
    <<"a", "b", "c", "d", "e", "f", "g", "h", "i", "j", "k", "l", "m",
      "n", "o", "p", "q", "r", "s", "t", "u", "v", "w", "x", "y", "z">>
UPPER_CASE ==
    <<"A", "B", "C", "D", "E", "F", "G", "H", "I", "J", "K", "L", "M",
      "N", "O", "P", "Q", "R", "S", "T", "U", "V", "W", "X", "Y", "Z">>

\* String.prototype.toUpperCase on one character of the texts modelled
UpperOf(c) ==
    IF \E k \in 1..Len(LOWER_CASE) : LOWER_CASE[k] = c
    THEN UPPER_CASE[CHOOSE k \in 1..Len(LOWER_CASE) : LOWER_CASE[k] = c]
    ELSE c

\* String.prototype.toUpperCase
ToUpperCase(s) == [i \in 1..Len(s) |-> UpperOf(s[i])]

CORRECTION_TAG == <<"C", "O", "R", "R", "E", "C", "T", "I", "O", "N", ":">>
OK_TAG == <<"O", "K", ":">>

\* responseText.replace(/^CORRECTION:\s*/i, ""): the pattern is looked for
\* at the start of the text
ReplaceCorrectionTag(s) ==
    IF StartsWith(ToUpperCase(s), CORRECTION_TAG)
    THEN TrimStart(SubSeq(s, Len(CORRECTION_TAG) + 1, Len(s)))
    ELSE s

\* part_001:50-71, needsCorrection and correction from the completion's text
ParseVerdict(responseText) ==
    IF StartsWith(ToUpperCase(Trim(responseText)), CORRECTION_TAG)
    THEN [needsCorrection |-> TRUE,
          correction |-> Trim(ReplaceCorrectionTag(responseText))]
    ELSE IF StartsWith(ToUpperCase(Trim(responseText)), OK_TAG)
    THEN [needsCorrection |-> FALSE, correction |-> Undefined]
    ELSE [needsCorrection |-> FALSE, correction |-> Undefined]

\* what the upstream completion gives: it rejects, has no content, or has a
\* text
UpstreamFailed == [failed |-> TRUE]
NoContent == [failed |-> FALSE, content |-> Undefined]

\* part_001:25-84, POST of the evaluate endpoint: the body of its response
EvaluatePOST(completion) ==
    IF completion.failed
    THEN [needsCorrection |-> FALSE, correction |-> Undefined]
    ELSE ParseVerdict(IF completion.content = Undefined
                      THEN <<>>
                      ELSE completion.content)

\* the texts the model may answer with: white space, a tag in some case or
\* none, white space, a body
VerdictLead == { <<>>, <<" ">>, <<"\n">> }
VerdictTags ==
    { CORRECTION_TAG,
      <<"c", "o", "r", "r", "e", "c", "t", "i", "o", "n", ":">>,
      <<"C", "o", "r", "r", "e", "c", "t", "i", "o", "n", ":">>,
      <<"C", "O", "R", "R", "E", "C", "T", "I", "O", "N">>,
      OK_TAG,
      <<"o", "k", ":">>,
      <<>> }
VerdictGap == { <<>>, <<" ">>, <<" ", " ">> }
VerdictBodies == { <<>>, <<"s", "a", "y", " ", "x">>, <<"s", "a", "y", " ", "x", " ">> }

VerdictTexts ==
    { lead \o tag \o gap \o body :
        lead \in VerdictLead, tag \in VerdictTags, gap \in VerdictGap,
        body \in VerdictBodies }

Completions ==
    {UpstreamFailed, NoContent}
        \cup { [failed |-> FALSE, content |-> t] : t \in VerdictTexts }

NotEvaluated == [pc |-> "none"]

-----------------------------------------------------------------------------
(* src/lib/prompts.ts                                                      *)

DifficultyLevel == {"beginner", "intermediate", "advanced"}

\* getTurnLimits with the bounds of the advanced tier exchanged
getTurnLimits_Swapped(difficulty) ==
    CASE difficulty = "beginner" -> [min |-> 2, max |-> 3]
      [] difficulty = "intermediate" -> [min |-> 3, max |-> 4]
      [] difficulty = "advanced" -> [min |-> 5, max |-> 3]

\* getTurnLimits with one more turn for beginners
getTurnLimits_LongBeginner(difficulty) ==
    CASE difficulty = "beginner" -> [min |-> 2, max |-> 4]
      [] difficulty = "intermediate" -> [min |-> 3, max |-> 4]
      [] difficulty = "advanced" -> [min |-> 3, max |-> 5]

\* prompts.ts:23-35
getTurnLimits(difficulty) ==
    CASE difficulty = "beginner" -> [min |-> 2, max |-> 3]
      [] difficulty = "intermediate" -> [min |-> 3, max |-> 4]
      [] difficulty = "advanced" -> [min |-> 3, max |-> 5]

\* The sections of the prompt, in order.  A section is named by the text it
\* opens with; sections that depend on the difficulty carry it.
languageInstruction(lang) ==
    IF lang # "en" THEN <<"LANGUAGE REQUIREMENT">> ELSE <<>>

topicPrompt(topic, difficulty) ==
    IF topic # Undefined
    THEN <<"CONVERSATION TOPIC">>
    ELSE <<"SCENARIO">>

\* prompts.ts:154, the style section differs per difficulty
getDifficultyGuidelines(difficulty) ==
    CASE difficulty = "beginner" -> "CONVERSATION STYLE: simple"
      [] difficulty = "intermediate" -> "CONVERSATION STYLE: natural"
      [] difficulty = "advanced" -> "CONVERSATION STYLE: equals"

\* prompts.ts:244
closingGuidance(difficulty) ==
    CASE difficulty = "beginner" -> "CRITICAL: This is the FINAL message"
      [] difficulty = "intermediate" -> "Thank them warmly (1-2 sentences)"
      [] difficulty = "advanced" -> "Thank them warmly (2-3 sentences)"

\* prompts.ts:267
endGuidance(difficulty) ==
    CASE difficulty = "beginner" -> "You can choose to continue or use [END]"
      [] difficulty = "intermediate" -> "Decide whether to continue or wrap up"
      [] difficulty = "advanced" -> "You can continue exploring this topic."

FINAL_MESSAGE_HEADER == "THIS IS THE END OF THE CONVERSATION - FINAL MESSAGE REQUIRED"
FINAL_MESSAGE_RULES == "CRITICAL RULES FOR THIS FINAL MESSAGE"
RESPONSE_FORMAT == "RESPONSE FORMAT: Start your response with [CONTINUE] or [END]"
GUIDELINES == "Guidelines"

\* buildSystemPrompt testing canEnd before mustEnd
buildSystemPrompt_CanEndFirst(p) ==
    IF p.canEnd
    THEN <<"You are">> \o languageInstruction(p.learningLanguage)
         \o topicPrompt(p.topic, p.difficulty)
         \o <<getDifficultyGuidelines(p.difficulty),
              endGuidance(p.difficulty),
              RESPONSE_FORMAT>>
    ELSE IF p.mustEnd
    THEN <<"You are">> \o languageInstruction(p.learningLanguage)
         \o <<FINAL_MESSAGE_HEADER,
              closingGuidance(p.difficulty),
              FINAL_MESSAGE_RULES,
              "Respond with ONLY your closing message.">>
    ELSE <<"You are">> \o languageInstruction(p.learningLanguage)
         \o topicPrompt(p.topic, p.difficulty)
         \o <<getDifficultyGuidelines(p.difficulty),
              GUIDELINES,
              "Write your message in">>

buildSystemPrompt(p) ==
    IF p.mustEnd
    THEN <<"You are">> \o languageInstruction(p.learningLanguage)
         \o <<FINAL_MESSAGE_HEADER,
              closingGuidance(p.difficulty),
              FINAL_MESSAGE_RULES,
              "Respond with ONLY your closing message.">>
    ELSE IF p.canEnd
    THEN <<"You are">> \o languageInstruction(p.learningLanguage)
         \o topicPrompt(p.topic, p.difficulty)
         \o <<getDifficultyGuidelines(p.difficulty),
              endGuidance(p.difficulty),
              RESPONSE_FORMAT>>
    ELSE <<"You are">> \o languageInstruction(p.learningLanguage)
         \o topicPrompt(p.topic, p.difficulty)
         \o <<getDifficultyGuidelines(p.difficulty),
              GUIDELINES,
              "Write your message in">>

-----------------------------------------------------------------------------
(* src/app/api/chat/route.ts, POST                                         *)

\* What the environment does to one request: whether OPENAI_API_KEY is set,
\* what the character completion answers and what the hint completion answers.
\* A completion is "error" (the call throws), or its content (Undefined when
\* choices[0] is missing, <<>> for an empty text).
CompletionError == <<"error">>

GENERIC_FAILURE == [status |-> 500, error |-> "Failed to generate response"]

\* route.ts:336-349: the text that is parsed, the message and shouldEnd
rawResponseText(content) ==
    IF content = Undefined \/ content = <<>> THEN FALLBACK_APOLOGY ELSE content

\* the parse guarded by canEnd alone
ParseResponse_CanEndOnly(raw, canEnd, mustEnd) ==
    IF canEnd
    THEN IF StartsWith(raw, END_TAG)
         THEN [shouldEnd |-> TRUE,
               responseText |-> Trim(ReplaceFirstWithEmpty(raw, END_TAG))]
         ELSE IF StartsWith(raw, CONTINUE_TAG)
         THEN [shouldEnd |-> FALSE,
               responseText |-> Trim(ReplaceFirstWithEmpty(raw, CONTINUE_TAG))]
         ELSE [shouldEnd |-> mustEnd, responseText |-> raw]
    ELSE [shouldEnd |-> mustEnd, responseText |-> raw]

\* the parse looking for the markers at every turn below max
ParseResponse_AnyTurn(raw, canEnd, mustEnd) ==
    IF ~mustEnd
    THEN IF StartsWith(raw, END_TAG)
         THEN [shouldEnd |-> TRUE,
               responseText |-> Trim(ReplaceFirstWithEmpty(raw, END_TAG))]
         ELSE IF StartsWith(raw, CONTINUE_TAG)
         THEN [shouldEnd |-> FALSE,
               responseText |-> Trim(ReplaceFirstWithEmpty(raw, CONTINUE_TAG))]
         ELSE [shouldEnd |-> mustEnd, responseText |-> raw]
    ELSE [shouldEnd |-> mustEnd, responseText |-> raw]

\* the parse without the trim after the marker is removed
ParseResponse_NoTrim(raw, canEnd, mustEnd) ==
    IF canEnd /\ ~mustEnd
    THEN IF StartsWith(raw, END_TAG)
         THEN [shouldEnd |-> TRUE,
               responseText |-> ReplaceFirstWithEmpty(raw, END_TAG)]
         ELSE IF StartsWith(raw, CONTINUE_TAG)
         THEN [shouldEnd |-> FALSE,
               responseText |-> ReplaceFirstWithEmpty(raw, CONTINUE_TAG)]
         ELSE [shouldEnd |-> mustEnd, responseText |-> raw]
    ELSE [shouldEnd |-> mustEnd, responseText |-> raw]

ParseResponse(raw, canEnd, mustEnd) ==
    IF canEnd /\ ~mustEnd
    THEN IF StartsWith(raw, END_TAG)
         THEN [shouldEnd |-> TRUE,
               responseText |-> Trim(ReplaceFirstWithEmpty(raw, END_TAG))]
         ELSE IF StartsWith(raw, CONTINUE_TAG)
         THEN [shouldEnd |-> FALSE,
               responseText |-> Trim(ReplaceFirstWithEmpty(raw, CONTINUE_TAG))]
         ELSE [shouldEnd |-> mustEnd, responseText |-> raw]
    ELSE [shouldEnd |-> mustEnd, responseText |-> raw]

\* the hint asked for whenever the tier has hints
HintWanted_AlsoEnding(difficulty, mustEnd, shouldEnd) ==
    difficulty # "advanced"

\* route.ts:351-390
HintWanted(difficulty, mustEnd, shouldEnd) ==
    difficulty # "advanced" /\ ~mustEnd /\ ~shouldEnd

HintOf(hintCompletion) ==
    IF hintCompletion = CompletionError \/ hintCompletion = Undefined
    THEN Undefined
    ELSE Trim(hintCompletion)

\* route.ts:392-397
TopicGuidanceOf(body) ==
    IF body.turnCount = 0 /\ body.topic # Undefined
    THEN <<"Practice: ">> \o body.topic
    ELSE Undefined

\* The whole handler: the request body, the environment, and the record of
\* what was computed on the way to the response.
POST(body, env) ==
    LET limits == getTurnLimits(body.difficulty)
        canEnd == body.turnCount >= limits.min
        mustEnd == body.turnCount >= limits.max
        systemPrompt ==
            buildSystemPrompt([difficulty |-> body.difficulty,
                               topic |-> body.topic,
                               canEnd |-> canEnd,
                               mustEnd |-> mustEnd,
                               learningLanguage |-> body.learningLanguage])
        base == [body |-> body, env |-> env, canEnd |-> canEnd,
                 mustEnd |-> mustEnd, systemPrompt |-> systemPrompt]
    IN
    IF ~env.apiKey
    THEN base @@ [completionCalls |-> 0, hintCalls |-> 0,
                  raw |-> Undefined, response |-> GENERIC_FAILURE]
    ELSE IF env.completion = CompletionError
    THEN base @@ [completionCalls |-> 1, hintCalls |-> 0,
                  raw |-> Undefined, response |-> GENERIC_FAILURE]
    ELSE
    LET raw == rawResponseText(env.completion)
        parsed == ParseResponse(raw, canEnd, mustEnd)
        wantHint == HintWanted(body.difficulty, mustEnd, parsed.shouldEnd)
    IN base @@ [completionCalls |-> 1,
                hintCalls |-> IF wantHint THEN 1 ELSE 0,
                raw |-> raw,
                response |->
                    [status |-> 200,
                     message |-> parsed.responseText,
                     shouldEnd |-> parsed.shouldEnd,
                     topicGuidance |-> TopicGuidanceOf(body),
                     hint |-> IF wantHint THEN HintOf(env.hint) ELSE Undefined]]

-----------------------------------------------------------------------------
(* Inputs of the endpoint.                                                 *)

BYE == <<"B", "y", "e", "!">>
OK_Q == <<"O", "k", "?">>

\* contents a completion can carry
ModelOutputs ==
    { Undefined,
      <<>>,
      <<"H", "i">>,
      END_TAG \o <<" ">> \o BYE,
      CONTINUE_TAG \o <<" ">> \o OK_Q,
      END_TAG,
      END_TAG \o END_TAG \o <<" ">> \o BYE,
      CONTINUE_TAG \o <<"\n">> \o OK_Q \o <<" ", "\t">>,
      <<" ">> \o END_TAG \o <<" ">> \o BYE,
      <<"[", "e", "n", "d", "]", " ">> \o BYE,
      OK_Q \o <<" ">> \o END_TAG,
      <<"[", "E", "N", "D", " ">> \o BYE }

HintOutputs == { CompletionError, Undefined, <<>>, <<" ", "t", "r", "y", " ">> }

Topics == { Undefined, <<"o", "r", "d", "e", "r">> }

Languages == {"en", "it"}

Bodies ==
    [turnCount : 0..MaxTurnCount, difficulty : DifficultyLevel,
     topic : Topics, learningLanguage : Languages]

Envs ==
    [apiKey : BOOLEAN, completion : ModelOutputs \cup {CompletionError},
     hint : HintOutputs]

\* BuildPromptParams, prompts.ts:202-217
PromptParams ==
    [turnCount : 0..MaxTurnCount, difficulty : DifficultyLevel, topic : Topics,
     canEnd : BOOLEAN, mustEnd : BOOLEAN, learningLanguage : Languages]

NotBuilt == [params |-> "none"]

\* no request has been served yet
NoCall == [completionCalls |-> 0, hintCalls |-> 0]

\* a request on its way to the endpoint
Request(body, env) == [request |-> body, env |-> env]

Served(c) == "response" \in DOMAIN c

-----------------------------------------------------------------------------
(* src/components/ChatInterface.tsx                                        *)

\* ChatInterface.tsx:375, the message shown when the chat call failed
CLIENT_FALLBACK == <<"t", "r", "y", " ", "a", "g", "a", "i", "n">>

\* props.openingMessage, shown when the opening request failed
OPENING_MESSAGE == <<"W", "e", "l", "c", "o", "m", "e">>

CIAO == <<"c", "i", "a", "o">>

\* what the user can have in the input field
InputTexts == { <<" ">>, <<" ">> \o CIAO }

Message(id, text, sender) ==
    [id |-> id, text |-> text, sender |-> sender, correction |-> Undefined]

\* what a render captures in the closures of its handlers
Snapshot(m, t, ty, e, l, i) ==
    [messages |-> m, turnCount |-> t, isTyping |-> ty, isEnding |-> e,
     isLoadingOpening |-> l, inputValue |-> i]

Idle == [pc |-> "idle"]

UserMessages(ms) == { i \in 1..Len(ms) : ms[i].sender = "user" }

\* the body of a chat request of this session
SessionBody(t) ==
    [turnCount |-> t, difficulty |-> props.difficulty, topic |-> props.topic,
     learningLanguage |-> props.learningLanguage]

\* the environments a session's chat request can meet
SessionEnvs ==
    { [apiKey |-> FALSE, completion |-> <<"H", "i">>, hint |-> Undefined],
      [apiKey |-> TRUE, completion |-> CompletionError, hint |-> Undefined],
      [apiKey |-> TRUE, completion |-> END_TAG \o <<" ">> \o BYE, hint |-> Undefined],
      [apiKey |-> TRUE, completion |-> CONTINUE_TAG \o <<" ">> \o OK_Q,
       hint |-> <<" ", "t", "r", "y", " ">>] }

\* what the evaluation branch of Promise.allSettled settles to: rejected (the
\* fetch failed or the 3 s timer won), a response that is not ok, or evalData
EvalOutcomes ==
    { [status |-> "rejected"],
      [status |-> "fulfilled", ok |-> FALSE, needsCorrection |-> TRUE,
       correction |-> <<"s", "a", "y", " ", "x">>],
      [status |-> "fulfilled", ok |-> TRUE, needsCorrection |-> FALSE,
       correction |-> Undefined],
      [status |-> "fulfilled", ok |-> TRUE, needsCorrection |-> TRUE,
       correction |-> <<"s", "a", "y", " ", "x">>] }

Pending == [status |-> "pending"]

\* the chat view is on the page (page.tsx:193-207); its steps leave the page's
\* state alone
ChatViewActive ==
    /\ mounted
    /\ conversationState = "active"
    /\ UNCHANGED <<visitVars, homeVars>>

\* ChatInterface.tsx:111-189, the mount effect starts generateOpeningMessage
GenerateOpeningMessage ==
    /\ ChatViewActive
    /\ opening = "mounted"
    /\ opening' = "fetching"
    /\ requestsSent' = requestsSent + 1
    /\ UNCHANGED <<messages, turnCount, isTyping, isEnding, countdown,
                   isLoadingOpening, inputValue, isSendingRef, view, send,
                   sendsAccepted, props, lastEvaluation>>
    /\ UNCHANGED <<chatVars, progressVars>>

\* the opening request is answered (or the fetch rejects) and the handler
\* runs to its end: ChatInterface.tsx:143-184
OpeningSettles ==
    /\ ChatViewActive
    /\ opening = "fetching"
    /\ \E rejected \in BOOLEAN, env \in SessionEnvs :
        LET c == POST(SessionBody(0), env)
            r == c.response
            text == IF ~rejected /\ r.status = 200 /\ r.message # <<>>
                    THEN r.message
                    ELSE OPENING_MESSAGE
        IN /\ call' = IF rejected THEN call ELSE c
           /\ messages' = << Message(<<"opening">>, text, "character") >>
    /\ UNCHANGED <<built, evaluated>>
    /\ isLoadingOpening' = FALSE
    /\ opening' = "done"
    /\ UNCHANGED <<turnCount, isTyping, isEnding, countdown, inputValue,
                   isSendingRef, view, send, requestsSent, sendsAccepted, props, lastEvaluation>>
    /\ UNCHANGED progressVars

\* React commits the pending state updates: the handlers of the new render
\* close over the current state
Render ==
    /\ ChatViewActive
    /\ view # Snapshot(messages, turnCount, isTyping, isEnding,
                       isLoadingOpening, inputValue)
    /\ view' = Snapshot(messages, turnCount, isTyping, isEnding,
                        isLoadingOpening, inputValue)
    /\ UNCHANGED <<messages, turnCount, isTyping, isEnding, countdown,
                   isLoadingOpening, inputValue, isSendingRef, send, opening,
                   requestsSent, sendsAccepted, props, lastEvaluation>>
    /\ UNCHANGED <<chatVars, progressVars>>

\* ChatInterface.tsx:795-860: the input exists while the rendered isEnding is
\* false and is enabled while neither isTyping nor isLoadingOpening is rendered
\* the input left enabled while the opening message loads
InputEnabled_WhileLoading == ~view.isEnding /\ ~view.isTyping

InputEnabled == ~view.isEnding /\ ~view.isTyping /\ ~view.isLoadingOpening

\* onChange of the input: setInputValue in a discrete event, rendered at once
TypeInput(text) ==
    /\ ChatViewActive
    /\ InputEnabled
    /\ inputValue # text
    /\ inputValue' = text
    /\ view' = Snapshot(messages, turnCount, isTyping, isEnding,
                        isLoadingOpening, text)
    /\ UNCHANGED <<messages, turnCount, isTyping, isEnding, countdown,
                   isLoadingOpening, isSendingRef, send, opening,
                   requestsSent, sendsAccepted, props, lastEvaluation>>
    /\ UNCHANGED <<chatVars, progressVars>>

\* the guard of handleSend without the sending ref
SendGuard_NoRef ==
    /\ Trim(view.inputValue) # <<>>
    /\ ~view.isTyping
    /\ ~view.isEnding

\* ChatInterface.tsx:219-221, the guard of handleSend as the closure sees it
SendGuard ==
    /\ Trim(view.inputValue) # <<>>
    /\ ~view.isTyping
    /\ ~view.isEnding
    /\ ~isSendingRef

\* handleSend returns at its guard
HandleSendRejected ==
    /\ ChatViewActive
    /\ ~SendGuard
    /\ UNCHANGED vars

\* ChatInterface.tsx:224-295: handleSend up to its await, in a discrete event
HandleSend ==
    /\ ChatViewActive
    /\ SendGuard
    /\ sendsAccepted < MaxSends
    /\ LET text == Trim(view.inputValue)
           userMessage == Message(<<"user", sendsAccepted + 1>>, text, "user")
           newMessages == Append(view.messages, userMessage)
           newTurnCount == view.turnCount + 1
       IN /\ isSendingRef' = TRUE
          /\ messages' = newMessages
          /\ inputValue' = <<>>
          /\ turnCount' = newTurnCount
          /\ isTyping' = TRUE
          /\ send' = [pc |-> "allSettled", userId |-> userMessage.id,
                      body |-> SessionBody(newTurnCount),
                      chat |-> Pending, evaluation |-> Pending]
          /\ view' = Snapshot(newMessages, newTurnCount, TRUE, isEnding,
                              isLoadingOpening, <<>>)
    /\ requestsSent' = requestsSent + 1
    /\ sendsAccepted' = sendsAccepted + 1
    /\ UNCHANGED <<isEnding, countdown, isLoadingOpening, opening, props,
                   lastEvaluation>>
    /\ UNCHANGED <<chatVars, progressVars>>
\* the chat fetch of the send in flight settles: the endpoint has served the
\* request, or the fetch rejects
ChatSettles ==
    /\ ChatViewActive
    /\ send.pc = "allSettled"
    /\ send.chat = Pending
    /\ UNCHANGED <<built, evaluated>>
    /\ \/ /\ send' = [send EXCEPT !.chat = [status |-> "rejected"]]
          /\ UNCHANGED call
       \/ \E env \in SessionEnvs :
            LET c == POST(send.body, env) IN
            /\ call' = c
            /\ send' = [send EXCEPT !.chat =
                            [status |-> "fulfilled", response |-> c.response]]
    /\ UNCHANGED <<messages, turnCount, isTyping, isEnding, countdown,
                   isLoadingOpening, inputValue, isSendingRef, view, opening,
                   requestsSent, sendsAccepted, props, lastEvaluation>>
    /\ UNCHANGED progressVars

\* the evaluation branch settles: ChatInterface.tsx:275-294
EvalSettles ==
    /\ ChatViewActive
    /\ send.pc = "allSettled"
    /\ send.evaluation = Pending
    /\ \E o \in EvalOutcomes : send' = [send EXCEPT !.evaluation = o]
    /\ UNCHANGED <<messages, turnCount, isTyping, isEnding, countdown,
                   isLoadingOpening, inputValue, isSendingRef, view, opening,
                   requestsSent, sendsAccepted, props, lastEvaluation>>
    /\ UNCHANGED <<chatVars, progressVars>>

\* ChatInterface.tsx:337-340 negated: the evaluation branch was rejected (the
\* fetch failed or the timer won) or its response is not ok
EvalDropped(e) == e.status = "rejected" \/ ~e.ok

ChatFailed(chat) ==
    chat.status = "rejected" \/ chat.response.status # 200

\* ChatInterface.tsx:365-369
StartEnding(shouldEnd) ==
    IF shouldEnd
    THEN isEnding' = TRUE /\ countdown' = 3
    ELSE UNCHANGED <<isEnding, countdown>>

\* handleSend taking the turn back when the chat call failed
SendContinues_RollsBack ==
    /\ ChatViewActive
    /\ send.pc = "allSettled"
    /\ send.chat # Pending
    /\ send.evaluation # Pending
    /\ IF ChatFailed(send.chat)
       THEN /\ messages' = Append(messages,
                   Message(<<"char", sendsAccepted>>, CLIENT_FALLBACK, "character"))
            /\ turnCount' = turnCount - 1
            /\ isTyping' = FALSE
            /\ isSendingRef' = FALSE
            /\ send' = Idle
            /\ UNCHANGED <<isEnding, countdown>>
       ELSE LET data == send.chat.response IN
            /\ messages' = Append(messages,
                   Message(<<"char", sendsAccepted>>, data.message, "character"))
            /\ isTyping' = FALSE
            /\ UNCHANGED turnCount
            /\ IF send.evaluation.status = "fulfilled" /\ send.evaluation.ok
               THEN /\ send' = [send EXCEPT !.pc = "evalJson"]
                    /\ UNCHANGED <<isEnding, countdown, isSendingRef>>
               ELSE /\ StartEnding(data.shouldEnd)
                    /\ isSendingRef' = FALSE
                    /\ send' = Idle
    /\ lastEvaluation' =
          IF send'.pc = "idle" THEN send.evaluation ELSE lastEvaluation
    /\ UNCHANGED <<isLoadingOpening, inputValue, view, opening,
                   requestsSent, sendsAccepted, props>>
    /\ UNCHANGED <<chatVars, progressVars>>

\* handleSend treating a dropped evaluation as a failure of the turn
SendContinues_EvalThrows ==
    /\ ChatViewActive
    /\ send.pc = "allSettled"
    /\ send.chat # Pending
    /\ send.evaluation # Pending
    /\ IF ChatFailed(send.chat) \/ EvalDropped(send.evaluation)
       THEN \* throw, catch and finally
            /\ messages' = Append(messages,
                   Message(<<"char", sendsAccepted>>, CLIENT_FALLBACK, "character"))
            /\ isTyping' = FALSE
            /\ isSendingRef' = FALSE
            /\ send' = Idle
            /\ UNCHANGED <<isEnding, countdown>>
       ELSE LET data == send.chat.response IN
            /\ messages' = Append(messages,
                   Message(<<"char", sendsAccepted>>, data.message, "character"))
            /\ isTyping' = FALSE
            /\ IF send.evaluation.status = "fulfilled" /\ send.evaluation.ok
               THEN \* await evaluationResponse.value.json()
                    /\ send' = [send EXCEPT !.pc = "evalJson"]
                    /\ UNCHANGED <<isEnding, countdown, isSendingRef>>
               ELSE /\ StartEnding(data.shouldEnd)
                    /\ isSendingRef' = FALSE
                    /\ send' = Idle
    /\ lastEvaluation' =
          IF send'.pc = "idle" THEN send.evaluation ELSE lastEvaluation
    /\ UNCHANGED <<turnCount, isLoadingOpening, inputValue, view, opening,
                   requestsSent, sendsAccepted, props>>
    /\ UNCHANGED <<chatVars, progressVars>>

\* Promise.allSettled has resolved and handleSend runs on to its next await
\* or to its end: ChatInterface.tsx:297-340 and 365-383
SendContinues ==
    /\ ChatViewActive
    /\ send.pc = "allSettled"
    /\ send.chat # Pending
    /\ send.evaluation # Pending
    /\ IF ChatFailed(send.chat)
       THEN \* throw, catch and finally
            /\ messages' = Append(messages,
                   Message(<<"char", sendsAccepted>>, CLIENT_FALLBACK, "character"))
            /\ isTyping' = FALSE
            /\ isSendingRef' = FALSE
            /\ send' = Idle
            /\ UNCHANGED <<isEnding, countdown>>
       ELSE LET data == send.chat.response IN
            /\ messages' = Append(messages,
                   Message(<<"char", sendsAccepted>>, data.message, "character"))
            /\ isTyping' = FALSE
            /\ IF send.evaluation.status = "fulfilled" /\ send.evaluation.ok
               THEN \* await evaluationResponse.value.json()
                    /\ send' = [send EXCEPT !.pc = "evalJson"]
                    /\ UNCHANGED <<isEnding, countdown, isSendingRef>>
               ELSE /\ StartEnding(data.shouldEnd)
                    /\ isSendingRef' = FALSE
                    /\ send' = Idle
    /\ lastEvaluation' =
          IF send'.pc = "idle" THEN send.evaluation ELSE lastEvaluation
    /\ UNCHANGED <<turnCount, isLoadingOpening, inputValue, view, opening,
                   requestsSent, sendsAccepted, props>>
    /\ UNCHANGED <<chatVars, progressVars>>

\* ChatInterface.tsx:344-348
correctionText(c) ==
    IF Len(c) > CORRECTION_LIMIT THEN SubSeq(c, 1, CORRECTION_LIMIT) ELSE c

\* the evaluation body has been read: ChatInterface.tsx:342-383
SendFinishes ==
    /\ ChatViewActive
    /\ send.pc = "evalJson"
    /\ LET evalData == send.evaluation IN
       IF evalData.needsCorrection /\ evalData.correction # Undefined
                                   /\ evalData.correction # <<>>
       THEN messages' =
                [i \in 1..Len(messages) |->
                    IF messages[i].id = send.userId
                    THEN [messages[i] EXCEPT
                              !.correction = correctionText(evalData.correction)]
                    ELSE messages[i]]
       ELSE UNCHANGED messages
    /\ StartEnding(send.chat.response.shouldEnd)
    /\ isSendingRef' = FALSE
    /\ send' = Idle
    /\ lastEvaluation' = send.evaluation
    /\ UNCHANGED <<turnCount, isTyping, isLoadingOpening, inputValue, view,
                   opening, requestsSent, sendsAccepted, props>>
    /\ UNCHANGED <<chatVars, progressVars>>
-----------------------------------------------------------------------------
(* The progress ledger: src/lib/progress.ts in its language-scoped version  *)
(* (src/unnamed/part_006); the two versions of completeConversation and     *)
(* setGlobalLevel are the same text.                                       *)

DIFFICULTY_LEVELS == <<"beginner", "intermediate", "advanced">>
STAGES_PER_LOCATION == 3
ALL_LOCATION_SLUGS ==
    <<"restaurant", "bakery", "school", "bank", "hotel", "grocery-store">>
ALL_LOCATIONS == { ALL_LOCATION_SLUGS[i] : i \in 1..NumLocations }

\* topic ids passed to markTopicComplete
TopicIds == {"ordering-food", "asking-check"}

\* new Date().toISOString()
NOW == "now"

\* localStorage.getItem returns null
NoItem == [item |-> "none"]

EmptyMap == [x \in {} |-> x]

\* the key of the version that was not scoped by language
LEGACY_KEY == "lingua-town-progress"

\* the key not scoped by the language
getStorageKey_Unscoped(lang) == "en"

\* part_006:5-8: the keys are identified with the languages they end with
getStorageKey(lang) == lang

\* part_006:33-38 (progress.ts:26-31)
getDefaultProgress == [globalLevel |-> "beginner", difficulties |-> EmptyMap]

\* localStorage.setItem inside saveProgress: it stores, or it throws and the
\* error is logged
saveProgress(st, lang, progress, writeOk) ==
    IF writeOk THEN [st EXCEPT ![getStorageKey(lang)] = progress] ELSE st

\* getProgress returns the stored record, the migrated legacy record (which it
\* saves under the language key) or the default, which is also what its catch
\* returns when localStorage cannot be read; the pair of the record and the
\* storage it leaves
getProgress(st, lang, readOk, writeOk) ==
    LET stored == st[getStorageKey(lang)] IN
    IF ~readOk
    THEN [progress |-> getDefaultProgress, storage |-> st]
    ELSE IF stored = NoItem
    THEN LET oldStored == st[LEGACY_KEY] IN
         IF oldStored # NoItem
         THEN [progress |-> oldStored,
               storage |-> saveProgress(st, lang, oldStored, writeOk)]
         ELSE [progress |-> getDefaultProgress, storage |-> st]
    ELSE [progress |-> stored, storage |-> st]

\* the outcomes of a localStorage.setItem: it stores or throws while the
\* storage can be used, it throws when the storage is disabled
WriteOutcomes(available) == IF available THEN BOOLEAN ELSE {FALSE}

\* the outcomes of the setItem calls getProgress makes: one when it migrates
MigrationWrites(st, lang) ==
    IF st[getStorageKey(lang)] = NoItem /\ st[LEGACY_KEY] # NoItem
    THEN BOOLEAN
    ELSE {TRUE}

IndexOfLevel(level) ==
    CHOOSE i \in 1..Len(DIFFICULTY_LEVELS) : DIFFICULTY_LEVELS[i] = level

NoLevel == "null"

\* getNextDifficultyLevel wrapping around after the last level
getNextDifficultyLevel_Wraps(current) ==
    LET idx == IndexOfLevel(current) IN
    DIFFICULTY_LEVELS[(idx % Len(DIFFICULTY_LEVELS)) + 1]

getNextDifficultyLevel(current) ==
    LET idx == IndexOfLevel(current) IN
    IF idx < Len(DIFFICULTY_LEVELS) THEN DIFFICULTY_LEVELS[idx + 1] ELSE NoLevel

NewLocationProgress ==
    [completedStages |-> 0, completedAt |-> <<>>, completedTopics |-> <<>>]

\* progress.difficulties[level], {} when it is missing
DifficultyProgressOf(progress, level) ==
    IF level \in DOMAIN progress.difficulties
    THEN progress.difficulties[level]
    ELSE EmptyMap

\* difficultyProgress[locationSlug], a new record when it is missing
LocationProgressOf(difficultyProgress, locationSlug) ==
    IF locationSlug \in DOMAIN difficultyProgress
    THEN difficultyProgress[locationSlug]
    ELSE NewLocationProgress

\* the update keeping only the addressed location in the level's record
WithLocationProgress_Replaces(progress, level, locationSlug, locationProgress) ==
    [progress EXCEPT !.difficulties =
        (level :> (locationSlug :> locationProgress))
        @@ progress.difficulties]

\* part_006:147-158 and 211-224: difficulties[level][locationSlug] is set
WithLocationProgress(progress, level, locationSlug, locationProgress) ==
    [progress EXCEPT !.difficulties =
        (level :> ((locationSlug :> locationProgress)
                   @@ DifficultyProgressOf(progress, level)))
        @@ progress.difficulties]

\* the increment without the cap
IncrementStages_NoCap(locationProgress) ==
    [locationProgress EXCEPT
        !.completedStages = locationProgress.completedStages + 1,
        !.completedAt = Append(locationProgress.completedAt, NOW)]

\* the increment writing a new record for the location
IncrementStages_NewRecord(locationProgress) ==
    IF locationProgress.completedStages < STAGES_PER_LOCATION
    THEN [completedStages |-> locationProgress.completedStages + 1,
          completedAt |-> Append(locationProgress.completedAt, NOW),
          completedTopics |-> <<>>]
    ELSE locationProgress

\* part_006:151-155 (progress.ts:126-130)
IncrementStages(locationProgress) ==
    IF locationProgress.completedStages < STAGES_PER_LOCATION
    THEN [locationProgress EXCEPT
              !.completedStages = locationProgress.completedStages + 1,
              !.completedAt = Append(locationProgress.completedAt, NOW)]
    ELSE locationProgress

\* the check satisfied by one complete location
allComplete_Some(difficultyProgress) ==
    \E loc \in ALL_LOCATIONS :
        /\ loc \in DOMAIN difficultyProgress
        /\ difficultyProgress[loc].completedStages >= STAGES_PER_LOCATION

\* part_006:160-163 (progress.ts:135-138)
allComplete(difficultyProgress) ==
    \A loc \in ALL_LOCATIONS :
        /\ loc \in DOMAIN difficultyProgress
        /\ difficultyProgress[loc].completedStages >= STAGES_PER_LOCATION

\* completedStages of every modelled location in a difficulty's record
StagesIn(difficultyProgress) ==
    [loc \in ALL_LOCATIONS |->
        IF loc \in DOMAIN difficultyProgress
        THEN difficultyProgress[loc].completedStages
        ELSE 0]

\* part_006:131-175 (progress.ts:106-150) as a function of the storage it
\* finds and of what its localStorage calls do: the storage is usable or
\* disabled for the whole call, and the setItem of the migration (w0), of
\* line 157 (w1) and of line 169 (w2) each store or throw.  The value is the
\* storage left and what the call worked on and returned.
completeConversationIn(st, lang, locationSlug, available, w0, w1, w2) ==
    LET got == getProgress(st, lang, available, w0)
        progress == got.progress
        currentLevel == progress.globalLevel
        before == LocationProgressOf(
                      DifficultyProgressOf(progress, currentLevel), locationSlug)
        locationProgress == IncrementStages(before)
        updated == WithLocationProgress(progress, currentLevel, locationSlug,
                                        locationProgress)
        saved == saveProgress(got.storage, lang, updated, w1)
        difficultyProgress == updated.difficulties[currentLevel]
        nextLevel == getNextDifficultyLevel(currentLevel)
        advance == allComplete(difficultyProgress) /\ nextLevel # NoLevel
    IN [storage |->
            IF advance
            THEN saveProgress(saved, lang,
                              [updated EXCEPT !.globalLevel = nextLevel], w2)
            ELSE saved,
        result |->
            [op |-> "completeConversation",
             locationSlug |-> locationSlug,
             level |-> currentLevel,
             incremented |->
                 locationProgress.completedStages # before.completedStages,
             stages |-> StagesIn(difficultyProgress),
             advanced |-> advance,
             newLevel |-> IF advance THEN nextLevel ELSE NoLevel]]

\* the calls counted as having returned advanced: true
CountAdvanced(n, result) ==
    IF result.advanced /\ n < MaxAdvancesCounted THEN n + 1 ELSE n

\* completeConversation called on the ledger
completeConversation(locationSlug) ==
    \E available \in BOOLEAN :
    \E w0 \in MigrationWrites(storage, learningLanguage),
       w1 \in WriteOutcomes(available), w2 \in WriteOutcomes(available) :
    LET done == completeConversationIn(storage, learningLanguage, locationSlug,
                                       available, w0, w1, w2)
    IN
    /\ storage' = done.storage
    /\ lastResult' = done.result
    /\ advancedCalls' = CountAdvanced(advancedCalls, done.result)
    /\ UNCHANGED <<learningLanguage, onlyCompleteConversation, levelChanges,
                   topicMarks>>
    /\ UNCHANGED <<chatVars, sessionVars, homeVars>>

\* part_006:88-93 (progress.ts:63-68) as a function of the storage it finds;
\* the value is the storage left
setGlobalLevelIn(st, lang, level, available, w0, w1) ==
    LET got == getProgress(st, lang, available, w0) IN
    saveProgress(got.storage, lang,
                 [got.progress EXCEPT !.globalLevel = level], w1)

\* setGlobalLevel called on the ledger
setGlobalLevel(level) ==
    \E available \in BOOLEAN :
    \E w0 \in MigrationWrites(storage, learningLanguage),
       w1 \in WriteOutcomes(available) :
    /\ levelChanges < MaxLevelChanges
    /\ levelChanges' = levelChanges + 1
    /\ storage' = setGlobalLevelIn(storage, learningLanguage, level,
                                   available, w0, w1)
    /\ lastResult' = [op |-> "setGlobalLevel", level |-> level]
    /\ onlyCompleteConversation' = FALSE
    /\ UNCHANGED <<learningLanguage, advancedCalls, topicMarks>>
    /\ UNCHANGED <<chatVars, sessionVars, homeVars>>

Includes(seq, x) == \E i \in 1..Len(seq) : seq[i] = x

\* markTopicComplete appending without looking for the topic
markTopicCompleteIn_Appends(st, lang, locationSlug, difficulty, topicId, available, w0, w1) ==
    LET got == getProgress(st, lang, available, w0)
        progress == got.progress
        locationProgress ==
            LocationProgressOf(DifficultyProgressOf(progress, difficulty),
                               locationSlug)
    IN saveProgress(got.storage, lang,
           WithLocationProgress(progress, difficulty, locationSlug,
               [locationProgress EXCEPT !.completedTopics =
                    Append(locationProgress.completedTopics, topicId)]),
           w1)

\* part_006:202-226 as a function of the storage it finds; progress.ts:177-202
\* is the case difficulty = globalLevel.  The value is the storage left.
markTopicCompleteIn(st, lang, locationSlug, difficulty, topicId, available, w0, w1) ==
    LET got == getProgress(st, lang, available, w0)
        progress == got.progress
        locationProgress ==
            LocationProgressOf(DifficultyProgressOf(progress, difficulty),
                               locationSlug)
    IN
    IF ~Includes(locationProgress.completedTopics, topicId)
    THEN saveProgress(got.storage, lang,
             WithLocationProgress(progress, difficulty, locationSlug,
                 [locationProgress EXCEPT !.completedTopics =
                      Append(locationProgress.completedTopics, topicId)]),
             w1)
    ELSE got.storage

\* markTopicComplete called on the ledger
markTopicComplete(locationSlug, difficulty, topicId) ==
    \E available \in BOOLEAN :
    \E w0 \in MigrationWrites(storage, learningLanguage),
       w1 \in WriteOutcomes(available) :
    /\ topicMarks < MaxTopicMarks
    /\ topicMarks' = topicMarks + 1
    /\ storage' = markTopicCompleteIn(storage, learningLanguage, locationSlug,
                                      difficulty, topicId, available, w0, w1)
    /\ lastResult' = [op |-> "markTopicComplete", locationSlug |-> locationSlug,
                      level |-> difficulty, topicId |-> topicId]
    /\ onlyCompleteConversation' = FALSE
    /\ UNCHANGED <<learningLanguage, advancedCalls, levelChanges>>
    /\ UNCHANGED <<chatVars, sessionVars, homeVars>>
-----------------------------------------------------------------------------
(* The end of a conversation: the countdown effect of the chat view, the    *)
(* building page and its ConversationEnding component.                     *)

\* the buildingSlug prop left out (ChatInterface.tsx:29), a falsy value at
\* ChatInterface.tsx:88
NoBuildingSlug == ""

\* ChatInterface.tsx:80-85, the timer of a positive countdown fires; the
\* effect runs again for the new value and sets the next timer
CountdownTick ==
    /\ mounted
    /\ conversationState = "active"
    /\ countdown > 0
    /\ countdown' = countdown - 1
    /\ navigationFired' = FALSE
    /\ UNCHANGED <<mounted, conversationState, endingCountdown, newLevel,
                   endingEffectDue, log>>
    /\ UNCHANGED <<messages, turnCount, isTyping, isEnding, isLoadingOpening,
                   inputValue, isSendingRef, view, send, opening, requestsSent,
                   sendsAccepted, props, lastEvaluation>>
    /\ UNCHANGED <<chatVars, progressVars, homeVars>>

\* completeTopic(locationSlug, difficulty, topicId) as its callers give it
\* its arguments (ChatInterface.tsx:92, page.tsx:87): it marks the topic
\* complete in the ledger
completeTopicIn(st, lang, locationSlug, difficulty, topicId, available, w0, w1) ==
    markTopicCompleteIn(st, lang, locationSlug, difficulty, topicId,
                        available, w0, w1)

\* ChatInterface.tsx:90-96 and page.tsx:84-89: the topic, when there is one,
\* is marked complete, then completeConversation is called; the storage left
\* and the result of completeConversation
RecordCompletion(available, ws) ==
    LET marked ==
            IF props.topic # Undefined
            THEN completeTopicIn(storage, learningLanguage, props.building,
                                 props.difficulty, props.topicId,
                                 available, ws[1], ws[2])
            ELSE storage
    IN completeConversationIn(marked, learningLanguage, props.building,
                              available, ws[1], ws[3], ws[4])

RecordedCalls ==
    (IF props.topic # Undefined
     THEN << <<"completeTopic", props.building, props.difficulty, props.topicId>> >>
     ELSE << >>)
    \o << <<"completeConversation", props.building>> >>

\* the outcomes of the localStorage writes of one completion
CompletionWrites(available) ==
    [1..4 -> WriteOutcomes(available)]

\* the ledger's history after a completion made by the visit
Recorded(done) ==
    /\ storage' = done.storage
    /\ lastResult' = done.result
    /\ advancedCalls' = CountAdvanced(advancedCalls, done.result)
    /\ onlyCompleteConversation' =
          (onlyCompleteConversation /\ props.topic = Undefined)
    /\ UNCHANGED <<learningLanguage, levelChanges, topicMarks>>

UnchangedChatView ==
    UNCHANGED <<messages, turnCount, isTyping, isEnding, countdown,
                isLoadingOpening, inputValue, isSendingRef, view, send,
                opening, requestsSent, sendsAccepted, props, lastEvaluation>>

\* the chat view is unmounted and its React state is gone
ChatViewUnmounted ==
    /\ messages' = <<>>
    /\ turnCount' = 0
    /\ isTyping' = FALSE
    /\ isEnding' = FALSE
    /\ countdown' = -1
    /\ isLoadingOpening' = TRUE
    /\ inputValue' = <<>>
    /\ isSendingRef' = FALSE
    /\ view' = Snapshot(<<>>, 0, FALSE, FALSE, TRUE, <<>>)
    /\ send' = Idle
    /\ opening' = "mounted"
    /\ requestsSent' = 0
    /\ sendsAccepted' = 0
    /\ lastEvaluation' = Pending
    /\ UNCHANGED props

\* router.push has been called and the navigation has not happened yet
PushRequested ==
    \E i \in 1..Len(log) : log[i][1] = "push"

\* ChatInterface.tsx:86-105, the navigation timer of countdown 0 fires: with a
\* buildingSlug the view records the completion and pushes the town's URL,
\* without one it calls onConversationEnd (page.tsx:76-78), and the page
\* replaces the chat view by ConversationEnding
NavigationTimer ==
    /\ mounted
    /\ conversationState = "active"
    /\ countdown = 0
    /\ ~navigationFired
    /\ navigationFired' = TRUE
    /\ IF props.buildingSlug # NoBuildingSlug
       THEN \E available \in BOOLEAN : \E ws \in CompletionWrites(available) :
               /\ Recorded(RecordCompletion(available, ws))
               /\ log' = log \o RecordedCalls \o << <<"push", "/?building">> >>
               /\ UNCHANGED <<conversationState, endingCountdown,
                              endingEffectDue>>
               /\ UnchangedChatView
       ELSE /\ conversationState' = "ending"
            /\ endingCountdown' = 3
            /\ endingEffectDue' = TRUE
            /\ log' = Append(log, <<"onConversationEnd">>)
            /\ UNCHANGED progressVars
            /\ ChatViewUnmounted
    /\ UNCHANGED <<mounted, newLevel>>
    /\ UNCHANGED <<chatVars, homeVars>>

\* DevTools.tsx:152-157 (ConversationEnding), the timer of its countdown
\* fires; the effect runs for the new value
EndingTick ==
    /\ mounted
    /\ conversationState # "active"
    /\ endingCountdown > 0
    /\ endingCountdown' = endingCountdown - 1
    /\ endingEffectDue' = TRUE
    /\ UNCHANGED <<mounted, conversationState, newLevel, navigationFired, log>>
    /\ UnchangedChatView
    /\ UNCHANGED <<chatVars, progressVars, homeVars>>

\* DevTools.tsx:158-162 with page.tsx:80-96: at 0 the effect calls onComplete,
\* the page's handleCountdownComplete, and pushes the town's URL. When the
\* level advanced the page sets its state; it renders again with a new
\* handleCountdownComplete, a dependency of the effect (DevTools.tsx:162),
\* and the effect is due again
EndingComplete ==
    /\ mounted
    /\ conversationState # "active"
    /\ endingCountdown = 0
    /\ endingEffectDue
    /\ \E available \in BOOLEAN : \E ws \in CompletionWrites(available) :
          LET done == RecordCompletion(available, ws)
              set  == done.result.advanced /\ done.result.newLevel # NoLevel
          IN
          /\ Recorded(done)
          /\ newLevel' = IF set THEN done.result.newLevel ELSE newLevel
          /\ conversationState' = IF set THEN "levelUp" ELSE conversationState
          /\ endingEffectDue' =
                (set /\ (newLevel # done.result.newLevel
                         \/ conversationState # "levelUp"))
    /\ log' = log \o RecordedCalls \o << <<"push", "/">> >>
    /\ UNCHANGED <<mounted, endingCountdown, navigationFired>>
    /\ UnchangedChatView
    /\ UNCHANGED <<chatVars, homeVars>>

\* the navigation asked of the router happens: the page is unmounted, its
\* effects are cleaned up and their timers cleared
Navigated ==
    /\ mounted
    /\ PushRequested
    /\ mounted' = FALSE
    /\ UNCHANGED <<conversationState, endingCountdown, newLevel,
                   endingEffectDue, navigationFired, log>>
    /\ ChatViewUnmounted
    /\ UNCHANGED <<chatVars, progressVars, homeVars>>

\* the user leaves the page while the conversation is ending (page.tsx:148-172,
\* the link back to town). Leaving earlier ends the visit with nothing
\* recorded and nothing pending.
Unmount ==
    /\ mounted
    /\ isEnding
    /\ ~PushRequested
    /\ mounted' = FALSE
    /\ UNCHANGED <<conversationState, endingCountdown, newLevel,
                   endingEffectDue, navigationFired, log>>
    /\ ChatViewUnmounted
    /\ UNCHANGED <<chatVars, progressVars, homeVars>>
-----------------------------------------------------------------------------
(* The topic catalog and the selection of a topic when the page mounts.    *)

\* language.ts:100-239, the ids of the catalog lists of the first two
\* locations of ALL_LOCATIONS
TOPIC_IDS ==
    [restaurant |->
        [beginner |-> <<"ordering-food", "asking-check", "asking-about-dish",
                        "more-water", "simple-reservation">>,
         intermediate |-> <<"special-occasion-dinner",
                            "dietary-restrictions-menu", "wine-pairing">>,
         advanced |-> <<"culinary-discussion",
                        "ingredient-sourcing-restaurant", "chef-inspiration">>],
     bakery |->
        [beginner |-> <<"buying-bread", "asking-price",
                        "ordering-coffee-pastry", "picking-up-order",
                        "out-of-stock-substitution">>,
         intermediate |-> <<"party-catering", "custom-decorations",
                            "dietary-restrictions">>,
         advanced |-> <<"baking-techniques", "recipe-development",
                        "ingredient-sourcing">>]]

\* a Topic of the catalog (language.ts:90-94), reduced to its id
TopicOf(id) == [id |-> id]

\* the catalog: topics[locationSlug][difficulty], each list cut to its first
\* CatalogSize topics
topics ==
    [slug \in DOMAIN TOPIC_IDS |->
        [d \in DifficultyLevel |->
            LET ids == TOPIC_IDS[slug][d]
                n == IF Len(ids) < CatalogSize THEN Len(ids) ELSE CatalogSize
            IN [i \in 1..n |-> TopicOf(ids[i])]]]

\* the building slugs a page is opened for: one of the catalog and one the
\* catalog does not have, the route taking any string (page.tsx:37)
BuildingSlugs == {"restaurant", "museum"}

\* language.ts:241-246
getTopicsForLocation(locationSlug, difficulty) ==
    IF locationSlug \in DOMAIN topics
    THEN topics[locationSlug][difficulty]
    ELSE <<>>

\* language.ts:248-254
getAllTopicIdsForLocation(locationSlug, difficulty) ==
    LET locationTopics == getTopicsForLocation(locationSlug, difficulty)
    IN [i \in 1..Len(locationTopics) |-> locationTopics[i].id]

\* selectNextTopic returns null
NoTopic == [null |-> TRUE]

\* language.ts:256-263, with the ?? null of topicSelection.ts:34
getTopicById(locationSlug, difficulty, topicId) ==
    LET locationTopics == getTopicsForLocation(locationSlug, difficulty)
        found == {i \in 1..Len(locationTopics) : locationTopics[i].id = topicId}
    IN IF found = {}
       THEN NoTopic
       ELSE locationTopics[CHOOSE i \in found : \A j \in found : i <= j]

\* progress.ts:170-175 on the record getProgress returned: the completed
\* topics of the location at the current level
getCompletedTopics(progress, locationSlug) ==
    LocationProgressOf(DifficultyProgressOf(progress, progress.globalLevel),
                       locationSlug).completedTopics

\* the selection drawing from all topics even when some are not completed
selectNextTopic_FromAll(completedTopicIds, locationSlug, difficulty) ==
    LET allTopicIds == getAllTopicIdsForLocation(locationSlug, difficulty)
    IN IF Len(allTopicIds) = 0
       THEN {NoTopic}
       ELSE { getTopicById(locationSlug, difficulty, allTopicIds[i]) :
                 i \in 1..Len(allTopicIds) }

\* the selection looking up the chosen id in the beginner list
selectNextTopic_BeginnerLookup(completedTopicIds, locationSlug, difficulty) ==
    LET allTopicIds == getAllTopicIdsForLocation(locationSlug, difficulty)
        NotCompleted(id) == ~Includes(completedTopicIds, id)
        availableTopicIds == SelectSeq(allTopicIds, NotCompleted)
        pool == IF Len(availableTopicIds) > 0 THEN availableTopicIds
                                              ELSE allTopicIds
    IN IF Len(allTopicIds) = 0
       THEN {NoTopic}
       ELSE { getTopicById(locationSlug, "beginner", pool[i]) :
                 i \in 1..Len(pool) }

\* topicSelection.ts:9-35 given the list getCompletedTopics returned: the
\* topics Math.random can make it return
selectNextTopic(completedTopicIds, locationSlug, difficulty) ==
    LET allTopicIds == getAllTopicIdsForLocation(locationSlug, difficulty)
        NotCompleted(id) == ~Includes(completedTopicIds, id)
        availableTopicIds == SelectSeq(allTopicIds, NotCompleted)
        pool == IF Len(availableTopicIds) > 0 THEN availableTopicIds
                                              ELSE allTopicIds
    IN IF Len(allTopicIds) = 0
       THEN {NoTopic}
       ELSE { getTopicById(locationSlug, difficulty, pool[i]) :
                 i \in 1..Len(pool) }

\* the completedTopics list stored for a language at (difficulty, location),
\* empty where nothing is stored
StoredTopics(st, lang, difficulty, locationSlug) ==
    IF st[getStorageKey(lang)] = NoItem
    THEN <<>>
    ELSE LocationProgressOf(
             DifficultyProgressOf(st[getStorageKey(lang)], difficulty),
             locationSlug).completedTopics

\* the text of a topic given to the chat view
TopicText == <<"t">>

\* page.tsx:47-58, the mount effect of the page: it reads the level
\* (getGlobalLevel, part_006:84-86), selects the topic of the conversation at
\* that level and mounts the chat view with both
PageMounts(building) ==
    /\ ~mounted
    /\ \E available \in BOOLEAN :
       \E w0 \in MigrationWrites(storage, learningLanguage) :
          LET got == getProgress(storage, learningLanguage, available, w0)
              currentDifficulty == got.progress.globalLevel
              completedTopicIds == getCompletedTopics(got.progress, building)
          IN \E topic \in selectNextTopic(completedTopicIds, building,
                                          currentDifficulty) :
                /\ storage' = got.storage
                /\ props' = [difficulty |-> currentDifficulty,
                             topic |-> IF topic = NoTopic THEN Undefined
                                                          ELSE TopicText,
                             topicId |-> IF topic = NoTopic THEN "" ELSE topic.id,
                             learningLanguage |-> learningLanguage,
                             building |-> building,
                             buildingSlug |-> NoBuildingSlug]
                /\ lastResult' = [op |-> "selectNextTopic",
                                  locationSlug |-> building,
                                  level |-> currentDifficulty,
                                  readOk |-> available,
                                  completed |-> completedTopicIds,
                                  topic |-> topic]
    /\ mounted' = TRUE
    /\ onlyCompleteConversation' = FALSE
    /\ UNCHANGED <<learningLanguage, advancedCalls, levelChanges, topicMarks>>
    /\ UNCHANGED <<conversationState, endingCountdown, newLevel,
                   endingEffectDue, navigationFired, log>>
    /\ UNCHANGED <<messages, turnCount, isTyping, isEnding, countdown,
                   isLoadingOpening, inputValue, isSendingRef, view, send,
                   opening, requestsSent, sendsAccepted, lastEvaluation>>
    /\ UNCHANGED <<chatVars, homeVars>>

\* the conversation of the visit ran to its end: the page marks the topic
\* complete and records the stage (page.tsx:80-96), then the town is shown
ConversationEnds ==
    /\ mounted
    /\ \E available \in BOOLEAN : \E ws \in CompletionWrites(available) :
          LET done == RecordCompletion(available, ws)
              repeated ==
                  /\ props.topic # Undefined
                  /\ Includes(StoredTopics(storage, learningLanguage,
                                           props.difficulty, props.building),
                              props.topicId)
          IN Recorded([storage |-> done.storage,
                       result |-> [repeated |-> repeated] @@ done.result])
    /\ mounted' = FALSE
    /\ UNCHANGED <<conversationState, endingCountdown, newLevel,
                   endingEffectDue, navigationFired, log>>
    /\ UnchangedChatView
    /\ UNCHANGED <<chatVars, homeVars>>

\* the user goes back to town before the conversation ended (page.tsx:148-172)
PageLeft ==
    /\ mounted
    /\ mounted' = FALSE
    /\ UNCHANGED <<conversationState, endingCountdown, newLevel,
                   endingEffectDue, navigationFired, log>>
    /\ UnchangedChatView
    /\ UNCHANGED <<chatVars, progressVars, homeVars>>

-----------------------------------------------------------------------------
(* The town page: part_000 (src/app/page.tsx), the level and language      *)
(* pickers over the progress ledger.                                       *)

\* part_000:51-58, the useState values before the mount effect has run
HomeAtLoad ==
    [isClient |-> FALSE,
     globalLevel |-> "beginner",
     stages |-> EmptyMap,
     learningLanguage |-> "en"]

\* language.ts:28-37, "en" when localStorage cannot be read
getLearningLanguage(stored, available) == IF available THEN stored ELSE "en"

\* language.ts:42-50: the stored language after the call; a failed setItem is
\* logged and leaves the one that was stored
setLearningLanguage(stored, language, writeOk) ==
    IF writeOk THEN language ELSE stored

\* part_006:102-113, getAllLocationStages on the record getProgress returned
getAllLocationStages(progress) ==
    StagesIn(DifficultyProgressOf(progress, progress.globalLevel))

\* part_000:67-71, refreshProgress: getAllLocationStages, getGlobalLevel and
\* getTotalProgressForCurrentLevel each call getProgress, whose migration
\* write stores or throws (ws).  The value is the storage left, what the
\* page is given to show and what the first getProgress found and returned.
refreshProgress(st, lang, available, ws) ==
    LET g1 == getProgress(st, lang, available, ws[1])
        g2 == getProgress(g1.storage, lang, available, ws[2])
        g3 == getProgress(g2.storage, lang, available, ws[3])
    IN [storage |-> g3.storage,
        stages |-> getAllLocationStages(g1.progress),
        globalLevel |-> g2.progress.globalLevel,
        read |-> [stored |-> st[getStorageKey(lang)],
                  legacy |-> st[LEGACY_KEY],
                  readOk |-> available,
                  returned |-> g1.progress]]

\* the outcomes of the setItem calls of the three reads of refreshProgress,
\* which are made when there is a record to migrate
RefreshWrites(available) ==
    IF storage[LEGACY_KEY] = NoItem
    THEN {[i \in 1..3 |-> TRUE]}
    ELSE [1..3 -> WriteOutcomes(available)]

\* part_000:73-77, the mount effect
HomeMounts ==
    \E available \in BOOLEAN :
    \E ws \in RefreshWrites(available) :
    LET lang == getLearningLanguage(learningLanguage, available)
        shown == refreshProgress(storage, lang, available, ws)
    IN
    /\ ~home.isClient
    /\ home' = [isClient |-> TRUE,
                learningLanguage |-> lang,
                globalLevel |-> shown.globalLevel,
                stages |-> shown.stages]
    /\ storage' = shown.storage
    /\ lastResult' = [op |-> "mount", language |-> lang, read |-> shown.read]
    /\ UNCHANGED <<learningLanguage, onlyCompleteConversation, advancedCalls,
                   levelChanges, topicMarks>>
    /\ UNCHANGED <<chatVars, sessionVars>>

\* part_000:127-133
handleLevelChange(level) ==
    \E available \in BOOLEAN :
    \E w0 \in MigrationWrites(storage, learningLanguage),
       w1 \in WriteOutcomes(available), ws \in RefreshWrites(available) :
    LET lang == getLearningLanguage(learningLanguage, available)
        set == setGlobalLevelIn(storage, lang, level, available, w0, w1)
        shown == refreshProgress(set, lang, available, ws)
    IN
    /\ home.isClient
    /\ home' = [home EXCEPT !.globalLevel = shown.globalLevel,
                            !.stages = shown.stages]
    /\ storage' = shown.storage
    /\ lastResult' = [op |-> "handleLevelChange", level |-> level,
                      language |-> lang, read |-> shown.read]
    /\ onlyCompleteConversation' = FALSE
    /\ UNCHANGED <<learningLanguage, advancedCalls, levelChanges, topicMarks>>
    /\ UNCHANGED <<chatVars, sessionVars>>

\* part_000:135-149
handleLanguageChange(language) ==
    \E available \in BOOLEAN :
    \E wl \in WriteOutcomes(available), w1 \in WriteOutcomes(available),
       ws \in RefreshWrites(available) :
    \E w0 \in MigrationWrites(storage,
                               setLearningLanguage(learningLanguage, language, wl)) :
    LET currentDifficulty == home.globalLevel
        stored == setLearningLanguage(learningLanguage, language, wl)
        lang == getLearningLanguage(stored, available)
        set == setGlobalLevelIn(storage, lang, currentDifficulty,
                                available, w0, w1)
        shown == refreshProgress(set, lang, available, ws)
    IN
    /\ home.isClient
    /\ learningLanguage' = stored
    /\ home' = [home EXCEPT !.learningLanguage = language,
                            !.globalLevel = shown.globalLevel,
                            !.stages = shown.stages]
    /\ storage' = shown.storage
    /\ lastResult' = [op |-> "handleLanguageChange", language |-> language,
                      currentDifficulty |-> currentDifficulty,
                      read |-> shown.read]
    /\ onlyCompleteConversation' = FALSE
    /\ UNCHANGED <<advancedCalls, levelChanges, topicMarks>>
    /\ UNCHANGED <<chatVars, sessionVars>>

\* the page is left for a building and entered again
HomeLeft ==
    /\ home.isClient
    /\ home' = HomeAtLoad
    /\ lastResult' = [op |-> "none"]
    /\ UNCHANGED <<storage, learningLanguage, onlyCompleteConversation,
                   advancedCalls, levelChanges, topicMarks>>
    /\ UNCHANGED <<chatVars, sessionVars>>

-----
(* Specifications.                                                         *)

InitialSnapshot == Snapshot(<<>>, 0, FALSE, FALSE, TRUE, <<>>)

DefaultProps ==
    [difficulty |-> "beginner", topic |-> Undefined, topicId |-> Undefined,
     learningLanguage |-> "en", building |-> "restaurant",
     buildingSlug |-> NoBuildingSlug]

ChatViewAtMount(p) ==
    /\ messages = <<>>
    /\ turnCount = 0
    /\ isTyping = FALSE
    /\ isEnding = FALSE
    /\ countdown = -1
    /\ isLoadingOpening = TRUE
    /\ inputValue = <<>>
    /\ isSendingRef = FALSE
    /\ view = InitialSnapshot
    /\ send = Idle
    /\ opening = "mounted"
    /\ requestsSent = 0
    /\ sendsAccepted = 0
    /\ props = p
    /\ lastEvaluation = Pending

\* the page's state at a given mounted
PageAtMount(m) ==
    /\ mounted = m
    /\ conversationState = "active"
    /\ endingCountdown = -1
    /\ newLevel = NoLevel
    /\ endingEffectDue = FALSE
    /\ navigationFired = FALSE
    /\ log = <<>>

SessionAtMount(p) ==
    /\ ChatViewAtMount(p)
    /\ PageAtMount(TRUE)

EmptyStorage == [k \in Languages \cup {LEGACY_KEY} |-> NoItem]

ProgressAtInstall(lang) ==
    /\ storage = EmptyStorage
    /\ learningLanguage = lang
    /\ lastResult = [op |-> "none"]
    /\ onlyCompleteConversation = TRUE
    /\ advancedCalls = 0
    /\ levelChanges = 0
    /\ topicMarks = 0
    /\ home = HomeAtLoad

\* The endpoint alone: any request body meets any environment.
ServeChat ==
    /\ "request" \in DOMAIN call
    /\ call' = POST(call.request, call.env)
    /\ UNCHANGED <<built, evaluated, sessionVars, progressVars, homeVars>>

InitChat ==
    /\ \E body \in Bodies, env \in Envs : call = Request(body, env)
    /\ evaluated = NotEvaluated
    /\ built = NotBuilt
    /\ SessionAtMount(DefaultProps)
    /\ ProgressAtInstall("en")

NextChat == ServeChat

SpecChat == InitChat /\ [][NextChat]_vars

\* The prompt assembler alone: any parameters, also pairs of flags the endpoint
\* never passes.
BuildPrompt ==
    /\ "prompt" \notin DOMAIN built
    /\ built' = [params |-> built.params,
                 prompt |-> buildSystemPrompt(built.params)]
    /\ UNCHANGED <<call, evaluated, sessionVars, progressVars, homeVars>>

InitPrompt ==
    /\ call = NoCall
    /\ evaluated = NotEvaluated
    /\ \E p \in PromptParams : built = [params |-> p]
    /\ SessionAtMount(DefaultProps)
    /\ ProgressAtInstall("en")

NextPrompt == BuildPrompt

SpecPrompt == InitPrompt /\ [][NextPrompt]_vars

\* The evaluate endpoint alone: any answer of the upstream model.
ServeEvaluate ==
    /\ evaluated.pc = "received"
    /\ evaluated' = [pc |-> "served",
                     completion |-> evaluated.completion,
                     response |-> EvaluatePOST(evaluated.completion)]
    /\ UNCHANGED <<call, built, sessionVars, progressVars, homeVars>>

InitEvaluate ==
    /\ call = NoCall
    /\ \E c \in Completions : evaluated = [pc |-> "received", completion |-> c]
    /\ built = NotBuilt
    /\ SessionAtMount(DefaultProps)
    /\ ProgressAtInstall("en")

NextEvaluate == ServeEvaluate

SpecEvaluate == InitEvaluate /\ [][NextEvaluate]_vars

\* One conversation session of the chat view, with the endpoint serving it.
\* the state of localStorage in which the page reads the level d
StorageAtLevel(d) ==
    IF d = "beginner"
    THEN EmptyStorage
    ELSE [EmptyStorage EXCEPT !["it"] =
             [getDefaultProgress EXCEPT !.globalLevel = d]]

\* the page has read the level and the learning language from localStorage
\* (page.tsx:47-58) and mounted the chat view with a topic of the building
VisitAtMount(d, topic, topicId, slug, st) ==
    /\ call = NoCall
    /\ evaluated = NotEvaluated
    /\ built = NotBuilt
    /\ SessionAtMount([difficulty |-> d, topic |-> topic, topicId |-> topicId,
                       learningLanguage |-> "it", building |-> "restaurant",
                       buildingSlug |-> slug])
    /\ storage = st
    /\ learningLanguage = "it"
    /\ lastResult = [op |-> "none"]
    /\ onlyCompleteConversation = TRUE
    /\ advancedCalls = 0
    /\ levelChanges = 0
    /\ topicMarks = 0
    /\ home = HomeAtLoad

\* The conversation of a visit, at any difficulty.
Init ==
    \E d \in DifficultyLevel :
        VisitAtMount(d, <<"o", "r", "d", "e", "r">>, "ordering-food",
                     NoBuildingSlug, StorageAtLevel(d))

Next ==
    \/ GenerateOpeningMessage
    \/ OpeningSettles
    \/ Render
    \/ \E text \in InputTexts : TypeInput(text)
    \/ HandleSendRejected
    \/ HandleSend
    \/ ChatSettles
    \/ EvalSettles
    \/ SendContinues
    \/ SendFinishes

Spec == Init /\ [][Next]_vars

\* the ledger of a beginner whose next conversation at the restaurant
\* completes the level
StorageBeforeLevelUp ==
    LET stagesOf(loc) ==
            IF loc = "restaurant" THEN STAGES_PER_LOCATION - 1
                                  ELSE STAGES_PER_LOCATION
    IN
    [EmptyStorage EXCEPT !["it"] =
        [globalLevel |-> "beginner",
         difficulties |->
            ("beginner" :>
                [loc \in ALL_LOCATIONS |->
                    [completedStages |-> stagesOf(loc),
                     completedAt |-> [i \in 1..stagesOf(loc) |-> NOW],
                     completedTopics |-> <<>>]])]]

\* A whole visit, from the mount of the page to the navigation back to
\* town: the page as it mounts the chat view (page.tsx:196-206, without a
\* buildingSlug), with and without a topic, and the chat view given a
\* buildingSlug (ChatInterface.tsx:29).
InitVisit ==
    \/ VisitAtMount("beginner", <<"o", "r", "d", "e", "r">>, "ordering-food",
                    NoBuildingSlug, EmptyStorage)
    \/ VisitAtMount("beginner", <<"o", "r", "d", "e", "r">>, "ordering-food",
                    NoBuildingSlug, StorageBeforeLevelUp)
    \/ VisitAtMount("beginner", Undefined, Undefined, "restaurant",
                    EmptyStorage)

NextVisit ==
    \/ Next
    \/ CountdownTick
    \/ NavigationTimer
    \/ EndingTick
    \/ EndingComplete
    \/ Navigated
    \/ Unmount

SpecVisit == InitVisit /\ [][NextVisit]_vars

CompleteConversation ==
    \E loc \in ALL_LOCATIONS : completeConversation(loc)

SetGlobalLevel ==
    \E level \in DifficultyLevel : setGlobalLevel(level)

MarkTopicComplete ==
    \E loc \in ALL_LOCATIONS, d \in DifficultyLevel, t \in TopicIds :
        markTopicComplete(loc, d, t)

\* the progress another learning language has stored
OtherLanguageProgress ==
    [globalLevel |-> "intermediate",
     difficulties |->
        ("beginner" :>
            ("restaurant" :>
                [completedStages |-> 1,
                 completedAt |-> <<NOW>>,
                 completedTopics |-> <<"ordering-food">>]))]

\* no progress stored in the learning language, some in another
InitProgress ==
    /\ call = NoCall
    /\ evaluated = NotEvaluated
    /\ built = NotBuilt
    /\ SessionAtMount(DefaultProps)
    /\ storage = [EmptyStorage EXCEPT !["en"] = OtherLanguageProgress]
    /\ learningLanguage = "it"
    /\ lastResult = [op |-> "none"]
    /\ onlyCompleteConversation = TRUE
    /\ advancedCalls = 0
    /\ levelChanges = 0
    /\ topicMarks = 0
    /\ home = HomeAtLoad

NextProgress ==
    \/ CompleteConversation
    \/ SetGlobalLevel
    \/ MarkTopicComplete

SpecProgress == InitProgress /\ [][NextProgress]_vars

\* a topic id stored when the catalog had it, which the catalog no longer has
\* (language.ts:276-343 and 100-239 are two catalogs)
RETIRED_TOPIC == "ordering"

\* The topics of a learner over the visits of building pages: the learner
\* is at some level in the learning language, with nothing stored for the
\* restaurant or a conversation on a topic the catalog no longer has, and
\* has progress in another language.
InitTopics ==
    /\ call = NoCall
    /\ evaluated = NotEvaluated
    /\ built = NotBuilt
    /\ ChatViewAtMount(DefaultProps)
    /\ PageAtMount(FALSE)
    /\ learningLanguage = "it"
    /\ \E d \in DifficultyLevel, stored \in {<<>>, <<RETIRED_TOPIC>>} :
          storage =
             [EmptyStorage EXCEPT
                 !["it"] =
                     IF stored = <<>>
                     THEN StorageAtLevel(d)["it"]
                     ELSE [globalLevel |-> d,
                           difficulties |->
                              (d :> ("restaurant" :>
                                        [completedStages |-> 1,
                                         completedAt |-> <<NOW>>,
                                         completedTopics |-> stored]))],
                 !["en"] = OtherLanguageProgress]
    /\ lastResult = [op |-> "none"]
    /\ onlyCompleteConversation = TRUE
    /\ advancedCalls = 0
    /\ levelChanges = 0
    /\ topicMarks = 0
    /\ home = HomeAtLoad

NextTopics ==
    \/ \E building \in BuildingSlugs : PageMounts(building)
    \/ ConversationEnds
    \/ PageLeft

SpecTopics == InitTopics /\ [][NextTopics]_vars

\* the record stored by the version that was not scoped by language
LegacyProgress ==
    [globalLevel |-> "advanced",
     difficulties |->
        ("advanced" :>
            ("bakery" :>
                [completedStages |-> 2,
                 completedAt |-> <<NOW, NOW>>,
                 completedTopics |-> <<>>]))]

\* the progress of a learner who completed a stage at two levels
SavedProgress ==
    [globalLevel |-> "beginner",
     difficulties |->
        ("beginner" :>
            ("restaurant" :>
                [completedStages |-> 1,
                 completedAt |-> <<NOW>>,
                 completedTopics |-> <<>>]))
        @@ ("intermediate" :>
            ("bakery" :>
                [completedStages |-> 3,
                 completedAt |-> <<NOW, NOW, NOW>>,
                 completedTopics |-> <<>>]))]

\* The town page over any storage an installation can have: each language
\* with or without saved progress, with or without the record of the
\* version that was not scoped by language.
InitHome ==
    /\ call = NoCall
    /\ evaluated = NotEvaluated
    /\ built = NotBuilt
    /\ SessionAtMount(DefaultProps)
    /\ \E en \in {NoItem, OtherLanguageProgress}, it \in {NoItem, SavedProgress},
          legacy \in {NoItem, LegacyProgress} :
          storage = [EmptyStorage EXCEPT !["en"] = en, !["it"] = it,
                                         ![LEGACY_KEY] = legacy]
    /\ learningLanguage \in Languages
    /\ lastResult = [op |-> "none"]
    /\ onlyCompleteConversation = TRUE
    /\ advancedCalls = 0
    /\ levelChanges = 0
    /\ topicMarks = 0
    /\ home = HomeAtLoad

NextHome ==
    \/ HomeMounts
    \/ \E level \in DifficultyLevel : handleLevelChange(level)
    \/ \E language \in Languages : handleLanguageChange(language)
    \/ HomeLeft

SpecHome == InitHome /\ [][NextHome]_vars

-----------------------------------------------------------------------------
(* The claims.                                                             *)

\* the text the endpoint parses: the completion's content, or the apology
\* when there is none
TextOf(c) ==
    IF c.env.completion \in {Undefined, <<>>}
    THEN FALLBACK_APOLOGY
    ELSE c.env.completion

Answered(c) ==
    Served(c) /\ c.env.apiKey /\ c.env.completion # CompletionError

\* C1: for every tier 0 < min <= max, and for every served request canEnd is
\* turnCount >= min and mustEnd is turnCount >= max of the request's tier, so
\* canEnd is false below min and mustEnd implies canEnd.
C1_TurnFlags ==
    /\ \A d \in DifficultyLevel :
          /\ getTurnLimits(d).min \in Nat
          /\ getTurnLimits(d).max \in Nat
          /\ 0 < getTurnLimits(d).min
          /\ getTurnLimits(d).min <= getTurnLimits(d).max
    /\ Served(call) =>
          LET limits == getTurnLimits(call.body.difficulty) IN
          /\ call.canEnd <=> call.body.turnCount >= limits.min
          /\ call.mustEnd <=> call.body.turnCount >= limits.max
          /\ call.body.turnCount < limits.min => ~call.canEnd
          /\ call.mustEnd => call.canEnd

\* an advanced request at turnCount 5 has been served with both flags set
C1_Witness ==
    /\ Served(call)
    /\ call.body.difficulty = "advanced"
    /\ call.body.turnCount = 5
    /\ call.canEnd
    /\ call.mustEnd

\* C2: a request at or beyond the tier's max that the model answered gets
\* shouldEnd = true and the model's text as it is, markers included.
C2_MustEndForced ==
    (Answered(call) /\ call.body.turnCount >= getTurnLimits(call.body.difficulty).max)
        => /\ call.response.status = 200
           /\ call.response.shouldEnd
           /\ call.response.message = TextOf(call)

\* a must-end request whose completion starts with [CONTINUE] keeps the marker
C2_Witness ==
    /\ Answered(call)
    /\ call.body.turnCount >= getTurnLimits(call.body.difficulty).max
    /\ call.env.completion = CONTINUE_TAG \o <<" ">> \o OK_Q
    /\ call.response.message = CONTINUE_TAG \o <<" ">> \o OK_Q
    /\ call.response.shouldEnd

MayEnd(c) ==
    LET limits == getTurnLimits(c.body.difficulty) IN
    c.body.turnCount >= limits.min /\ c.body.turnCount < limits.max

\* the text after its first n characters
Drop(t, n) == SubSeq(t, n + 1, Len(t))

\* C3: between min and max, a text starting with [END] ends the conversation
\* and a text starting with [CONTINUE] continues it, the message being the
\* text without the leading marker, trimmed; any other text continues with
\* the message unchanged.
C3_MarkerParsed ==
    (Answered(call) /\ MayEnd(call)) =>
        LET t == TextOf(call)
            r == call.response
        IN /\ r.status = 200
           /\ StartsWith(t, END_TAG) =>
                 r.shouldEnd /\ r.message = Trim(Drop(t, Len(END_TAG)))
           /\ StartsWith(t, CONTINUE_TAG) =>
                 ~r.shouldEnd /\ r.message = Trim(Drop(t, Len(CONTINUE_TAG)))
           /\ (~StartsWith(t, END_TAG) /\ ~StartsWith(t, CONTINUE_TAG)) =>
                 ~r.shouldEnd /\ r.message = t
           /\ t = END_TAG \o <<" ">> \o BYE => r.message = BYE
           /\ t = CONTINUE_TAG \o <<"\n">> \o OK_Q \o <<" ", "\t">> => r.message = OK_Q

\* "[END] Bye!" between min and max has given shouldEnd and "Bye!"
C3_Witness ==
    /\ Answered(call)
    /\ MayEnd(call)
    /\ call.env.completion = END_TAG \o <<" ">> \o BYE
    /\ call.response.shouldEnd
    /\ call.response.message = BYE

\* a hint completion that failed, or carried no text or an empty one
HintFailed(hintCompletion) ==
    hintCompletion \in {CompletionError, Undefined, <<>>}

\* the response carries no hint text
NoHint(response) == response.hint \in {Undefined, <<>>}

BelowMin(c) == c.body.turnCount < getTurnLimits(c.body.difficulty).min

\* C26: a served request below the minimum of its tier, the opening request
\* (turnCount = 0) of every tier among them, never gets shouldEnd = true,
\* whatever the model's text; the text is returned as it is.
C26_NoEndBeforeMin ==
    /\ \A d \in DifficultyLevel : 0 < getTurnLimits(d).min
    /\ (Served(call) /\ BelowMin(call)) =>
          /\ "shouldEnd" \in DOMAIN call.response => ~call.response.shouldEnd
          /\ Answered(call) =>
                /\ call.response.status = 200
                /\ ~call.response.shouldEnd
                /\ call.response.message = TextOf(call)

\* an opening request whose completion starts with [END] was answered with
\* shouldEnd = false and the marker left in the message
C26_Witness ==
    /\ Answered(call)
    /\ call.body.turnCount = 0
    /\ call.env.completion = END_TAG \o <<" ">> \o BYE
    /\ call.response.message = END_TAG \o <<" ">> \o BYE
    /\ ~call.response.shouldEnd

Has(prompt, section) == \E i \in 1..Len(prompt) : prompt[i] = section

Built == "prompt" \in DOMAIN built

\* C9: the prompt is the must-end template when mustEnd, the may-end template
\* when canEnd and not mustEnd, the continue template otherwise; only the
\* may-end template carries the [CONTINUE]/[END] response format.
C9_TemplateSelected ==
    Built =>
        LET p == built.params
            kind == IF p.mustEnd THEN "mustEnd"
                    ELSE IF p.canEnd THEN "mayEnd" ELSE "continue"
        IN /\ Has(built.prompt, FINAL_MESSAGE_HEADER) <=> kind = "mustEnd"
           /\ Has(built.prompt, RESPONSE_FORMAT) <=> kind = "mayEnd"
           /\ Has(built.prompt, GUIDELINES) <=> kind = "continue"
           /\ p.mustEnd => ~Has(built.prompt, RESPONSE_FORMAT)

\* a prompt built with canEnd and mustEnd both true is the must-end template
C9_Witness ==
    /\ Built
    /\ built.params.mustEnd
    /\ built.params.canEnd
    /\ Has(built.prompt, FINAL_MESSAGE_HEADER)
    /\ ~Has(built.prompt, RESPONSE_FORMAT)

NumUserMessages(ms) == Cardinality(UserMessages(ms))

\* C4: in every state of a session turnCount is the number of user messages
\* in the message list; turnCount changes only when handleSend accepts a
\* message, and that step appends exactly one user message and adds one.
C4_OncePerUserMessage ==
    /\ [](turnCount = NumUserMessages(messages))
    /\ [][ /\ sendsAccepted' # sendsAccepted =>
                /\ sendsAccepted' = sendsAccepted + 1
                /\ turnCount' = turnCount + 1
                /\ NumUserMessages(messages') = NumUserMessages(messages) + 1
                /\ messages'[Len(messages')].sender = "user"
           /\ sendsAccepted' = sendsAccepted =>
                /\ turnCount' = turnCount
                /\ NumUserMessages(messages') = NumUserMessages(messages) ]_vars

\* a second message has been accepted and its requests are in flight, after
\* the first send has run to its end
C4_Witness ==
    /\ sendsAccepted = 2
    /\ turnCount = 2
    /\ NumUserMessages(messages) = 2
    /\ send.pc = "allSettled"

NumCharacterMessages(ms) == Len(ms) - NumUserMessages(ms)

\* the session is a beginner's
Beginner == props.difficulty = "beginner"

\* the step sets isEnding
EndingStarts == ~isEnding /\ isEnding'

\* a character message is the fallback shown for a failed chat call
SomeChatFailed(ms) ==
    \E i \in 1..Len(ms) :
        ms[i].sender = "character" /\ ms[i].text = CLIENT_FALLBACK

NoEndingBeforeMin ==
    /\ [](isEnding => turnCount >= getTurnLimits(props.difficulty).min)
    /\ [][opening' # opening => ~EndingStarts]_vars
    /\ [][(opening = "fetching" /\ opening' = "done" /\ call' # call) =>
             call'.body.turnCount = 0]_vars

\* no chat call of the session has failed so far
EveryChatCallSucceeded ==
    /\ ~SomeChatFailed(messages)
    /\ (send.pc # "idle" /\ send.chat # Pending) => ~ChatFailed(send.chat)

\* C27: while every chat call of the session has succeeded, turnCount does
\* not exceed the max of the tier, and when the reply to the max-th user
\* message has been handled the session is ending.
C27_Bounded ==
    EveryChatCallSucceeded =>
        LET max == getTurnLimits(props.difficulty).max IN
        /\ turnCount <= max
        /\ (turnCount = max /\ send.pc = "idle") => isEnding

\* C28: once isEnding is true it stays true, and from then on no user
\* message is added to the list, no chat request is issued and turnCount
\* does not change.
C28_EndingIsFinal ==
    [][isEnding =>
          /\ isEnding'
          /\ sendsAccepted' = sendsAccepted
          /\ NumUserMessages(messages') = NumUserMessages(messages)
          /\ requestsSent' = requestsSent
          /\ turnCount' = turnCount]_vars

\* a handleSend call is between its guard and its end
InFlight == send.pc # "idle"

\* C29: the sending guard is set exactly while a handleSend call is in
\* flight; while one is, no step appends a user message, changes turnCount
\* or issues a chat request; and when the call has finished, after a chat
\* call that succeeded or failed, a message typed into the rendered input of
\* a session that is not ending can be sent.
C29_OneSendInFlight ==
    /\ [](InFlight <=> isSendingRef)
    /\ [][InFlight =>
             /\ sendsAccepted' = sendsAccepted
             /\ NumUserMessages(messages') = NumUserMessages(messages)
             /\ turnCount' = turnCount
             /\ requestsSent' = requestsSent]_vars
    /\ []((/\ ~InFlight
            /\ Trim(view.inputValue) # <<>>
            /\ ~view.isTyping
            /\ ~view.isEnding
            /\ sendsAccepted < MaxSends) => ENABLED HandleSend)

\* after a send whose chat call failed, a second message was accepted and
\* its requests are in flight
C29_Witness ==
    /\ sendsAccepted = 2
    /\ InFlight
    /\ isSendingRef
    /\ turnCount = 2
    /\ NumUserMessages(messages) = 2
    /\ SomeChatFailed(messages)

\* the step in which handleSend handles a failed chat call
FailureHandled ==
    /\ send.pc = "allSettled"
    /\ send.chat # Pending
    /\ send.evaluation # Pending
    /\ ChatFailed(send.chat)
    /\ send' = Idle

\* C10: a request whose upstream call fails gets the generic failure after at
\* most one upstream call; the client's handling of the failed call leaves
\* turnCount at its incremented value, does not start the ending and issues no
\* request; a chat request is only ever issued by an accepted handleSend or by
\* the mount effect.
C10_UpstreamFailure ==
    /\ []( (Served(call) /\ ~Answered(call)) =>
              /\ call.response = GENERIC_FAILURE
              /\ call.completionCalls <= 1
              /\ call.hintCalls = 0 )
    /\ [][ FailureHandled =>
              /\ turnCount' = turnCount
              /\ turnCount' = send.body.turnCount
              /\ isEnding' = isEnding
              /\ countdown' = countdown
              /\ requestsSent' = requestsSent
              /\ isSendingRef' = FALSE ]_vars
    /\ [][ requestsSent' # requestsSent =>
              \/ sendsAccepted' = sendsAccepted + 1
              \/ opening = "mounted" /\ opening' = "fetching" ]_vars

\* the endpoint answered 500 to the first message and the client has handled
\* it: the turn is counted, the fallback is shown, the session is not ending
C10_Witness ==
    /\ Served(call)
    /\ call.response = GENERIC_FAILURE
    /\ call.body.turnCount = 1
    /\ send = Idle
    /\ turnCount = 1
    /\ requestsSent = 2
    /\ Len(messages) = 3
    /\ messages[3].text = CLIENT_FALLBACK
    /\ ~isEnding

\* the record getProgress would return, without its migration write
StoredProgress ==
    getProgress(storage, learningLanguage, TRUE, FALSE).progress

StoredLevel == StoredProgress.globalLevel

StoredStages(level, loc) ==
    LocationProgressOf(DifficultyProgressOf(StoredProgress, level), loc).completedStages

IsCompleteConversation(r) == r.op = "completeConversation"

\* C5: every completedStages, stored or in the record a call worked on, is
\* within 0..STAGES_PER_LOCATION.
C5_StagesCapped ==
    /\ \A k \in DOMAIN storage :
          storage[k] # NoItem =>
              \A level \in DOMAIN storage[k].difficulties :
                  \A loc \in DOMAIN storage[k].difficulties[level] :
                      storage[k].difficulties[level][loc].completedStages
                          \in 0..STAGES_PER_LOCATION
    /\ IsCompleteConversation(lastResult) =>
          \A loc \in ALL_LOCATIONS :
              lastResult.stages[loc] \in 0..STAGES_PER_LOCATION

\* completeConversation was called for a location that already had its three
\* stages, and left it at three
C5_Witness ==
    /\ IsCompleteConversation(lastResult)
    /\ ~lastResult.incremented
    /\ lastResult.stages[lastResult.locationSlug] = STAGES_PER_LOCATION
    /\ StoredStages(lastResult.level, lastResult.locationSlug) = STAGES_PER_LOCATION

AllAtThree(stages) == \A loc \in ALL_LOCATIONS : stages[loc] = STAGES_PER_LOCATION

\* C6: a call returns advanced: true only if, after its update, every
\* location has three stages at the level that was current; if some location
\* is below three it returns advanced: false and the stored globalLevel stays.
C6_AdvanceNeedsAll ==
    /\ [](IsCompleteConversation(lastResult) =>
             /\ lastResult.advanced => AllAtThree(lastResult.stages)
             /\ ~AllAtThree(lastResult.stages) =>
                    ~lastResult.advanced /\ lastResult.newLevel = NoLevel)
    /\ [][IsCompleteConversation(lastResult') =>
             /\ StoredLevel' # StoredLevel =>
                    lastResult'.advanced /\ AllAtThree(lastResult'.stages)
             /\ ~AllAtThree(lastResult'.stages) => StoredLevel' = StoredLevel
         ]_vars

\* the call that completed the last location at beginner advanced the level
C6_Witness ==
    /\ IsCompleteConversation(lastResult)
    /\ lastResult.level = "beginner"
    /\ lastResult.incremented
    /\ lastResult.advanced
    /\ lastResult.newLevel = "intermediate"
    /\ StoredLevel = "intermediate"
    /\ \A loc \in ALL_LOCATIONS : StoredStages("beginner", loc) = STAGES_PER_LOCATION

\* C7: when only completeConversation has been called since the default
\* progress, a call at beginner returns advanced: true (with intermediate)
\* exactly when its update leaves every location at three stages, and a call
\* that returns advanced: true after an earlier one did is a call at
\* intermediate that leaves every location at three stages there.
C7_AdvanceOncePerLevel ==
    (onlyCompleteConversation /\ IsCompleteConversation(lastResult)) =>
        /\ lastResult.level = "beginner" =>
              /\ lastResult.advanced <=> AllAtThree(lastResult.stages)
              /\ lastResult.advanced => lastResult.newLevel = "intermediate"
        /\ (lastResult.advanced /\ advancedCalls >= 2) =>
              /\ lastResult.level = "intermediate"
              /\ AllAtThree(lastResult.stages)
              /\ lastResult.newLevel = "advanced"

\* C8: a call of completeConversation leaves the stored globalLevel or moves
\* it to the next level of DIFFICULTY_LEVELS; at advanced it returns advanced:
\* false and the level stays advanced.
C8_OneStepForward ==
    /\ [](IsCompleteConversation(lastResult) =>
             /\ lastResult.advanced =>
                    IndexOfLevel(lastResult.newLevel) = IndexOfLevel(lastResult.level) + 1
             /\ lastResult.level = "advanced" =>
                    ~lastResult.advanced /\ lastResult.newLevel = NoLevel)
    /\ [][IsCompleteConversation(lastResult') =>
             /\ \/ StoredLevel' = StoredLevel
                \/ IndexOfLevel(StoredLevel') = IndexOfLevel(StoredLevel) + 1
             /\ StoredLevel = "advanced" => StoredLevel' = "advanced"
         ]_vars

\* at advanced with every location complete, a call returned advanced: false
C8_Witness ==
    /\ IsCompleteConversation(lastResult)
    /\ lastResult.level = "advanced"
    /\ AllAtThree(lastResult.stages)
    /\ ~lastResult.advanced
    /\ StoredLevel = "advanced"
    /\ \A loc \in ALL_LOCATIONS : StoredStages("advanced", loc) = STAGES_PER_LOCATION

\* the chat call of the turn in flight has returned successfully and its
\* reply is not in the message list yet
ReplyDue ==
    /\ send.pc = "allSettled"
    /\ send.chat # Pending
    /\ ~ChatFailed(send.chat)

\* C11: once the chat call of a turn has returned successfully, handleSend
\* can append the character's reply, whether or not the evaluation call of
\* the turn has answered or timed out.
C11_ReplyNotBlocked == ReplyDue => ENABLED SendContinues

\* the step in which handleSend resumes after Promise.allSettled
Resumes == send.pc = "allSettled" /\ send'.pc # "allSettled"

\* the end-of-conversation decision taken on the chat response data
EndDecision(data) ==
    /\ isEnding' = (isEnding \/ data.shouldEnd)
    /\ countdown' = IF data.shouldEnd THEN 3 ELSE countdown

LastUserMessage(ms) ==
    ms[CHOOSE i \in UserMessages(ms) : \A j \in UserMessages(ms) : j <= i]

\* C12: with a successful chat response the reply appended is the response's
\* message, never the fallback, whatever the evaluation did; a dropped
\* evaluation ends the send at once with the decision the chat response
\* carries, the same a successful evaluation ends with; a correction is only
\* ever attached by a successful evaluation, to the user message of its turn.
C12_EvaluationDropped ==
    /\ [][ (Resumes /\ ~ChatFailed(send.chat)) =>
              /\ Len(messages') = Len(messages) + 1
              /\ SubSeq(messages', 1, Len(messages)) = messages
              /\ messages'[Len(messages')].sender = "character"
              /\ messages'[Len(messages')].text = send.chat.response.message
              /\ messages'[Len(messages')].text # CLIENT_FALLBACK
              /\ EvalDropped(send.evaluation) =>
                    /\ send' = Idle
                    /\ EndDecision(send.chat.response) ]_vars
    /\ [][ (send.pc = "evalJson" /\ send'.pc = "idle") =>
              EndDecision(send.chat.response) ]_vars
    /\ [][ \A i \in 1..Len(messages) :
              (/\ i <= Len(messages')
               /\ messages'[i].correction # Undefined
               /\ messages'[i].correction # messages[i].correction) =>
                  /\ send.pc = "evalJson"
                  /\ ~EvalDropped(send.evaluation)
                  /\ messages[i].id = send.userId ]_vars
    /\ []( (send = Idle /\ lastEvaluation # Pending /\ EvalDropped(lastEvaluation)
                /\ UserMessages(messages) # {}) =>
              LastUserMessage(messages).correction = Undefined )

\* a turn with a successful chat response that asked to end, whose evaluation
\* was dropped, has finished: reply shown, session ending
C12_Witness ==
    /\ send = Idle
    /\ lastEvaluation # Pending
    /\ EvalDropped(lastEvaluation)
    /\ Served(call) /\ Answered(call) /\ call.response.shouldEnd
    /\ messages[Len(messages)].text = call.response.message
    /\ LastUserMessage(messages).correction = Undefined
    /\ isEnding /\ countdown = 3

-----------------------------------------------------------------------------
(* The end of a conversation.                                              *)

\* the positions of the calls of an operation in the log
CallsOf(op) == {i \in 1..Len(log) : log[i][1] = op}

\* the response a send is continuing with asked to end
EndAsked ==
    /\ send.pc \in {"allSettled", "evalJson"}
    /\ send.chat # Pending
    /\ ~ChatFailed(send.chat)
    /\ send.chat.response.shouldEnd

-----------------------------------------------------------------------------
(* The completed topics.                                                   *)

NoDuplicates(seq) ==
    \A i, j \in 1..Len(seq) : seq[i] = seq[j] => i = j

\* the ids of a modelled catalog list
CatalogIds(locationSlug, difficulty) ==
    {getAllTopicIdsForLocation(locationSlug, difficulty)[i] :
        i \in 1..Len(getAllTopicIdsForLocation(locationSlug, difficulty))}

\* C14: no completedTopics list stored holds a topic id twice, and wherever
\* a first markTopicComplete(location, tier, topicId) leaves the topic in the
\* stored list, a second call with the same arguments leaves the storage as
\* it is, whatever its writes do; a conversation that ends on a topic already
\* in the list leaves the list as it is.
C14_MarkIdempotent ==
    /\ [](\A k \in DOMAIN storage :
            storage[k] # NoItem =>
                \A d \in DOMAIN storage[k].difficulties :
                    \A loc \in DOMAIN storage[k].difficulties[d] :
                        NoDuplicates(storage[k].difficulties[d][loc].completedTopics))
    /\ [](\A loc \in BuildingSlugs, d \in DifficultyLevel :
          \A t \in CatalogIds("restaurant", d) :
          \A a1 \in BOOLEAN, a2 \in BOOLEAN :
          \A u0 \in MigrationWrites(storage, learningLanguage) :
          \A u1 \in WriteOutcomes(a1), w1 \in WriteOutcomes(a2) :
             LET once == markTopicCompleteIn(storage, learningLanguage, loc, d,
                                             t, a1, u0, u1)
             IN \A w0 \in MigrationWrites(once, learningLanguage) :
                   Includes(StoredTopics(once, learningLanguage, d, loc), t)
                      => markTopicCompleteIn(once, learningLanguage, loc, d,
                                             t, a2, w0, w1) = once)
    /\ [][ ("repeated" \in DOMAIN lastResult' /\ lastResult'.repeated
                /\ lastResult' # lastResult) =>
              StoredTopics(storage', learningLanguage, props.difficulty,
                           props.building)
                  = StoredTopics(storage, learningLanguage, props.difficulty,
                                 props.building) ]_vars

\* a conversation has ended on a topic that was in the stored list already,
\* and the list holds it once
C14_Witness ==
    /\ ~mounted
    /\ "repeated" \in DOMAIN lastResult
    /\ lastResult.repeated
    /\ Cardinality({i \in DOMAIN StoredTopics(storage, learningLanguage,
                                              props.difficulty, props.building) :
                       StoredTopics(storage, learningLanguage, props.difficulty,
                                    props.building)[i] = props.topicId}) = 1

\* the record getProgress returns from a storage under the learning language
ProgressIn(st) == getProgress(st, learningLanguage, TRUE, FALSE).progress

LocationRecordIn(st, d, loc) ==
    LocationProgressOf(DifficultyProgressOf(ProgressIn(st), d), loc)

\* C15: a markTopicComplete call leaves globalLevel, every completedStages
\* and every completedAt as they were, and every completedTopics list but the
\* one of the record it addresses; a completeConversation call leaves every
\* completedTopics list as it was.
C15_TopicsApartFromStages ==
    /\ [][ topicMarks' # topicMarks =>
              /\ ProgressIn(storage').globalLevel = ProgressIn(storage).globalLevel
              /\ \A d \in DifficultyLevel, loc \in ALL_LOCATIONS :
                    LET before == LocationRecordIn(storage, d, loc)
                        after  == LocationRecordIn(storage', d, loc)
                    IN /\ after.completedStages = before.completedStages
                       /\ after.completedAt = before.completedAt
                       /\ (d # lastResult'.level
                             \/ loc # lastResult'.locationSlug) =>
                              after.completedTopics = before.completedTopics ]_vars
    /\ [][ (IsCompleteConversation(lastResult') /\ topicMarks' = topicMarks
                /\ levelChanges' = levelChanges) =>
              \A d \in DifficultyLevel, loc \in ALL_LOCATIONS :
                  LocationRecordIn(storage', d, loc).completedTopics
                      = LocationRecordIn(storage, d, loc).completedTopics ]_vars

\* a topic was marked complete in a record and completeConversation added a
\* stage to the same record: the record has both
C15_Witness ==
    /\ topicMarks = 1
    /\ IsCompleteConversation(lastResult)
    /\ lastResult.incremented
    /\ LocationRecordIn(storage, lastResult.level,
                        lastResult.locationSlug).completedTopics # <<>>
    /\ LocationRecordIn(storage, lastResult.level,
                        lastResult.locationSlug).completedStages > 0

\* C20: a step of the ledger made while the learning language is L changes
\* no item of localStorage but the progress item of L (the items are
\* named by their languages).
C20_ScopedByLanguage ==
    [][ \A k \in DOMAIN storage :
           k # learningLanguage => storage'[k] = storage[k] ]_vars

\* the three operations have written under the learning language and the
\* record of the other language is the one that was there
C20_Witness ==
    /\ topicMarks = 1
    /\ levelChanges = 1
    /\ IsCompleteConversation(lastResult)
    /\ lastResult.incremented
    /\ storage[learningLanguage] # NoItem
    /\ LocationRecordIn(storage, lastResult.level,
                        lastResult.locationSlug).completedStages > 0
    /\ \E k \in DOMAIN storage :
          /\ k # learningLanguage
          /\ storage[k] = OtherLanguageProgress

\* completedStages of the (level, location) record in the item stored under
\* a key, 0 where nothing is stored
StagesStoredAt(st, k, d, loc) ==
    IF st[k] = NoItem
    THEN 0
    ELSE LocationProgressOf(DifficultyProgressOf(st[k], d), loc).completedStages

\* C22: no call of completeConversation, markTopicComplete or setGlobalLevel
\* lowers the completedStages of a stored (level, location) record, under
\* any key.
C22_StagesNeverDecrease ==
    [][ \A k \in DOMAIN storage, d \in DifficultyLevel, loc \in ALL_LOCATIONS :
           StagesStoredAt(storage', k, d, loc)
               >= StagesStoredAt(storage, k, d, loc) ]_vars

\* the three operations have been called and the stages completed at both
\* locations of the beginner level are stored
C22_Witness ==
    /\ topicMarks = 1
    /\ levelChanges = 1
    /\ lastResult.op \in {"setGlobalLevel", "markTopicComplete"}
    /\ \A loc \in ALL_LOCATIONS :
          StagesStoredAt(storage, learningLanguage, "beginner", loc) >= 2

\* C30: after a call of completeConversation that returned advanced: true
\* with newLevel, the stored globalLevel is newLevel and the stored record of
\* the level the call worked on has the stages the call computed, its own
\* increment included, whatever the setItem calls of the call did.
C30_ResultPersisted ==
    (IsCompleteConversation(lastResult) /\ lastResult.advanced) =>
        /\ lastResult.newLevel # NoLevel
        /\ StoredLevel = lastResult.newLevel
        /\ \A loc \in ALL_LOCATIONS :
              StoredStages(lastResult.level, loc) = lastResult.stages[loc]

-----------------------------------------------------------------------------
(* The town page.                                                          *)

\* the last step of the town page called getProgress
HasRead == "read" \in DOMAIN lastResult

\* the record is the freshly initialised one
IsDefaultRecord(progress) ==
    /\ progress.globalLevel = "beginner"
    /\ progress.difficulties = EmptyMap

\* the page shows beginner and no stage at any location
ShowsFreshStart ==
    /\ home.globalLevel = "beginner"
    /\ \A loc \in ALL_LOCATIONS : home.stages[loc] = 0

\* C21: whenever getProgress finds nothing stored under the key of the
\* learning language, it returns the default record (beginner, no stages, no
\* completed topics) and the page shows beginner with zero stages everywhere.
C21_AbsentIsDefault ==
    (HasRead /\ lastResult.read.stored = NoItem) =>
        /\ IsDefaultRecord(lastResult.read.returned)
        /\ ShowsFreshStart

\* What holds in place of C21: with nothing stored under the key of the learning
\* language, getProgress returns the record stored under the key that was
\* not scoped by language when there is one and localStorage can be read,
\* and the default record otherwise; the page shows the level and the stages
\* of the record returned.
C21_AbsentIsDefaultOrLegacy ==
    (HasRead /\ lastResult.read.stored = NoItem) =>
        LET read == lastResult.read IN
        /\ IF read.readOk /\ read.legacy # NoItem
           THEN read.returned = read.legacy
           ELSE IsDefaultRecord(read.returned) /\ ShowsFreshStart
        /\ home.globalLevel = read.returned.globalLevel
        /\ home.stages = getAllLocationStages(read.returned)

\* C25: after handleLanguageChange(L) the globalLevel stored for L and the
\* level the page shows are the level the page showed before the switch, and
\* the stages shown are those stored for L at that level.
C25_LevelPreserved ==
    lastResult.op = "handleLanguageChange" =>
        LET L == lastResult.language
            selected == lastResult.currentDifficulty
        IN
        /\ storage[L] # NoItem
        /\ storage[L].globalLevel = selected
        /\ home.globalLevel = selected
        /\ home.stages
               = StagesIn(DifficultyProgressOf(storage[L], selected))

-----------------------------------------------------------------------------
(* The selection of a topic.                                               *)

\* the step is a page mounting, which selects a topic
Selects == mounted' /\ ~mounted

\* the completed topics of the selection made by the step, as the ledger has
\* them: the list stored for the location at the level, or none when
\* localStorage could not be read
CompletedAtSelection ==
    IF lastResult'.readOk
    THEN StoredTopics(storage, learningLanguage, lastResult'.level,
                      lastResult'.locationSlug)
    ELSE <<>>

\* C16: when a topic of the catalog list of (location, tier) is not in the
\* completed list of (location, tier), the topic selected is not in it
\* either; a completed topic is selected only when every topic of the catalog
\* list is completed.
C16_PrefersNotCompleted ==
    [][ Selects =>
           LET all == CatalogIds(lastResult'.locationSlug, lastResult'.level)
               topic == lastResult'.topic
           IN /\ (\E id \in all : ~Includes(CompletedAtSelection, id)) =>
                     /\ topic # NoTopic
                     /\ ~Includes(CompletedAtSelection, topic.id)
              /\ (topic # NoTopic /\ Includes(CompletedAtSelection, topic.id)) =>
                     \A id \in all : Includes(CompletedAtSelection, id) ]_vars

\* the page mounted with a topic that was not completed while another topic
\* of the same list was
C16_Witness ==
    /\ mounted
    /\ lastResult.op = "selectNextTopic"
    /\ lastResult.readOk
    /\ lastResult.topic # NoTopic
    /\ ~Includes(lastResult.completed, lastResult.topic.id)
    /\ \E id \in CatalogIds(lastResult.locationSlug, lastResult.level) :
          Includes(lastResult.completed, id)

\* C17: the selection returns null only when the catalog list of (location,
\* tier) is empty, and otherwise a topic of that list.
C17_SelectsFromCatalog ==
    [][ Selects =>
           LET all == CatalogIds(lastResult'.locationSlug, lastResult'.level)
               topic == lastResult'.topic
           IN /\ topic = NoTopic => all = {}
              /\ topic # NoTopic =>
                    /\ topic.id \in all
                    /\ \E i \in DOMAIN topics[lastResult'.locationSlug][lastResult'.level] :
                          topics[lastResult'.locationSlug][lastResult'.level][i] = topic ]_vars

\* the page mounted with a topic of the catalog list while the stored list
\* held an id the catalog does not have
C17_Witness ==
    /\ mounted
    /\ lastResult.op = "selectNextTopic"
    /\ lastResult.topic # NoTopic
    /\ lastResult.topic.id \in CatalogIds(lastResult.locationSlug, lastResult.level)
    /\ \E i \in DOMAIN lastResult.completed :
          lastResult.completed[i]
              \notin CatalogIds(lastResult.locationSlug, lastResult.level)

\* C18: when a conversation on topic T at (location, tier) has ended and T is
\* stored as completed, the selection of the next page mounted for the same
\* (location, tier) does not return T.
C18_NoImmediateRepeat ==
    [][ (/\ Selects
         /\ IsCompleteConversation(lastResult)
         /\ "repeated" \in DOMAIN lastResult
         /\ props.topic # Undefined
         /\ lastResult'.locationSlug = props.building
         /\ lastResult'.level = props.difficulty
         /\ lastResult'.readOk
         /\ Includes(StoredTopics(storage, learningLanguage, props.difficulty,
                                  props.building), props.topicId)) =>
            lastResult'.topic # TopicOf(props.topicId) ]_vars

-----------------------------------------------------------------------------
(* The verdict of the evaluation.                                          *)

\* the text has the tag at its start, in any case, white space around the
\* text aside
HasTag(text, tag) == StartsWith(ToUpperCase(Trim(text)), tag)

\* the text that follows the tag, trimmed
AfterTag(text, tag) ==
    Trim(SubSeq(Trim(text), Len(tag) + 1, Len(Trim(text))))

\* the verdict text of a completion, empty when it has no content
VerdictOf(completion) ==
    IF completion.content = Undefined THEN <<>> ELSE completion.content

\* C19: a failed upstream call gives needsCorrection false and no
\* correction; a text with the tag CORRECTION: in any case gives
\* needsCorrection true and the trimmed text after the tag; every other text
\* gives needsCorrection false and no correction.
C19_VerdictClassified ==
    evaluated.pc = "served" =>
        LET c == evaluated.completion
            r == evaluated.response
        IN IF c.failed
           THEN ~r.needsCorrection /\ r.correction = Undefined
           ELSE IF HasTag(VerdictOf(c), CORRECTION_TAG)
           THEN /\ r.needsCorrection
                /\ r.correction = AfterTag(VerdictOf(c), CORRECTION_TAG)
           ELSE ~r.needsCorrection /\ r.correction = Undefined

====
